---- MODULE Spec2Model ----
(***************************************************************************)
(* Discovery & deduplication pipeline of BookScrapper.                     *)
(*                                                                         *)
(*   Spec       : search_and_scrape.main, the per-site pipeline            *)
(*                (search -> intra-batch dedup -> store checks -> detail   *)
(*                fetches -> aggregation).                                 *)
(*   SpecScrape : scrape_book under scrape_existing_books.main and         *)
(*                scrape_amazon under amazon_async.main, one call per URL. *)
(*   SpecSave   : two runs saving with save_books_to_mongodb into the      *)
(*                same collection.                                         *)
(*                                                                         *)
(* Strings are sequences of character codes.  Python's None is NoneVal     *)
(* for an identifier, NoneStr for a string, NoneList for a list and        *)
(* NoneInt for an int: values no string, list or year of the model equals. *)
(***************************************************************************)
EXTENDS Integers, Sequences, FiniteSets, TLC

NoneVal == "None"
NoneStr == <<-1>>
NoneList == << <<-2>> >>
NoneInt == -1

-----------------------------------------------------------------------------
(* Strings and hash_book                                                   *)

BAR == 124

IsSpace(c) == c \in {9, 10, 11, 12, 13, 32}

RECURSIVE LStrip(_)
LStrip(s) ==
    IF s = <<>> THEN <<>>
    ELSE IF IsSpace(Head(s)) THEN LStrip(Tail(s)) ELSE s

RECURSIVE RStrip(_)
RStrip(s) ==
    IF s = <<>> THEN <<>>
    ELSE IF IsSpace(s[Len(s)]) THEN RStrip(SubSeq(s, 1, Len(s) - 1)) ELSE s

\* str.strip()
Strip(s) == RStrip(LStrip(s))

\* the lower case of the code points the model uses: A-Z, the capital
\* letters of Latin-1 (not the multiplication sign), capital Y with
\* diaeresis and the Greek capital mu; everything else, the sharp s
\* included, is left as it is
LowerChar(c) ==
    IF c >= 65 /\ c <= 90 THEN c + 32
    ELSE IF c >= 192 /\ c <= 222 /\ c /= 215 THEN c + 32
    ELSE IF c = 376 THEN 255
    ELSE IF c = 924 THEN 956
    ELSE c

\* str.lower()
Lower(s) == [i \in 1..Len(s) |-> LowerChar(s[i])]

\* s <= t in Python's string order (code point by code point)
RECURSIVE StrLeq(_, _)
StrLeq(s, t) ==
    IF s = <<>> THEN TRUE
    ELSE IF t = <<>> THEN FALSE
    ELSE IF Head(s) < Head(t) THEN TRUE
    ELSE IF Head(s) > Head(t) THEN FALSE
    ELSE StrLeq(Tail(s), Tail(t))

RECURSIVE InsertSorted(_, _)
InsertSorted(x, ss) ==
    IF ss = <<>> THEN <<x>>
    ELSE IF StrLeq(x, Head(ss)) THEN <<x>> \o ss
    ELSE <<Head(ss)>> \o InsertSorted(x, Tail(ss))

\* sorted(list of str)
RECURSIVE Sorted(_)
Sorted(ss) ==
    IF ss = <<>> THEN <<>> ELSE InsertSorted(Head(ss), Sorted(Tail(ss)))

\* "|".join(list of str)
RECURSIVE JoinBar(_)
JoinBar(ss) ==
    IF ss = <<>> THEN <<>>
    ELSE IF Len(ss) = 1 THEN ss[1]
    ELSE ss[1] \o <<BAR>> \o JoinBar(Tail(ss))

\* str(int) for a non-negative int
RECURSIVE StrOfInt(_)
StrOfInt(n) ==
    IF n < 10 THEN <<48 + n>> ELSE StrOfInt(n \div 10) \o <<48 + (n % 10)>>

\* the authors normalised but left in the order given
NormAuthorsUnsorted(authors) ==
    IF authors = NoneList THEN <<>>
    ELSE [i \in 1..Len(SelectSeq(authors, LAMBDA a : a /= NoneStr)) |->
            Lower(Strip(SelectSeq(authors, LAMBDA a : a /= NoneStr)[i]))]

\* authors = [] for None, else
\* sorted([str(a).strip().lower() for a in authors if a is not None])
NormAuthors(authors) ==
    IF authors = NoneList THEN <<>>
    ELSE Sorted([i \in 1..Len(SelectSeq(authors, LAMBDA a : a /= NoneStr)) |->
                    Lower(Strip(SelectSeq(authors, LAMBDA a : a /= NoneStr)[i]))])

\* hash_book: the digest of the combined string; SHA-256 is modelled as
\* collision free, so the digest is the tagged combined string.  A None
\* title raises inside the try block and the function returns ''.
hash_book(title, authors, year) ==
    IF title = NoneStr THEN <<>>
    ELSE <<"sha256", Lower(Strip(title)) \o <<BAR>> \o JoinBar(NormAuthors(authors))
                      \o <<BAR>> \o (IF year = NoneInt THEN <<>> ELSE StrOfInt(year))>>

-----------------------------------------------------------------------------
(* The books of the model                                                  *)

\* "C++", " c++ ", "Go"
TitleCpp == <<67, 43, 43>>
TitleCppVariant == <<32, 99, 43, 43, 32>>
TitleGo == <<71, 111>>
\* "Al", "Bo"
AuthorAl == <<65, 108>>
AuthorBo == <<66, 111>>

\* what the detail pages of the model show
PageCpp == [title |-> TitleCpp, authors |-> <<AuthorAl, AuthorBo>>, year |-> 2020]
PageCppVariant == [title |-> TitleCppVariant, authors |-> <<AuthorBo, AuthorAl>>, year |-> 2020]
PageGo == [title |-> TitleGo, authors |-> <<AuthorAl>>, year |-> NoneInt]

Pages == {PageCpp, PageCppVariant, PageGo}

\* the detail page behind a search result of the model
PageOf(book) == CHOOSE page \in Pages : page.title = book.title

NoneUrl == <<"None", "None">>

\* a search result: get_search_results_via_playwright yields site, title,
\* asin and book_url, get_leanpub_search_results_via_api yields site, title,
\* book_id and slug; a key the dict lacks reads as None
AmazonBook(title, asin, path) ==
    [site |-> "amazon", title |-> title, asin |-> asin, book_id |-> NoneVal,
     slug |-> NoneVal, book_url |-> <<"amazon", path>>]

LeanpubBook(title, book_id, slug) ==
    [site |-> "leanpub", title |-> title, asin |-> NoneVal, book_id |-> book_id,
     slug |-> slug, book_url |-> NoneUrl]

\* an organic card, the sponsored card of the same item, a second item and
\* two cards whose ASIN could not be extracted
AmazonCpp == AmazonBook(TitleCpp, "N1", "dp/N1")
AmazonCppSponsored == AmazonBook(TitleCpp, "N1", "sspa/N1")
AmazonCppVariant == AmazonBook(TitleCppVariant, "N2", "dp/N2")
AmazonGoNoAsin == AmazonBook(TitleGo, NoneVal, "x/go")
AmazonCppNoAsin == AmazonBook(TitleCpp, NoneVal, "x/cpp")

LeanpubCpp == LeanpubBook(TitleCpp, "B1", "cpp")
LeanpubGo == LeanpubBook(TitleGo, "B2", "go")

SearchHits(site) ==
    IF site = "amazon"
    THEN {AmazonCpp, AmazonCppSponsored, AmazonCppVariant, AmazonGoNoAsin, AmazonCppNoAsin}
    ELSE {LeanpubCpp, LeanpubGo}

\* the record of a successful detail fetch: the identity of the book it was
\* fetched for, the fields of the page and the hash computed from them
\* (scrape_*_details: year, then hash_book(title, authors, year))
DetailRecord(book, page) ==
    [url |-> book.book_url, site |-> book.site, asin |-> book.asin,
     book_id |-> book.book_id, slug |-> book.slug,
     title |-> Strip(page.title), authors |-> page.authors, year |-> page.year,
     hash |-> hash_book(Strip(page.title), page.authors, page.year)]

RecCpp1 == DetailRecord(AmazonCpp, PageCpp)
\* another edition of the same book: other native id, same fingerprint
RecCpp2 == DetailRecord(AmazonCppVariant, PageCppVariant)
RecGo == DetailRecord(AmazonGoNoAsin, PageGo)

Records == {RecCpp1, RecCpp2, RecGo}

Hashes == {r.hash : r \in Records}

\* number of documents of the collection with the given hash
RECURSIVE CountHash(_, _)
CountHash(docs, h) ==
    IF docs = <<>> THEN 0
    ELSE (IF Head(docs).hash = h THEN 1 ELSE 0) + CountHash(Tail(docs), h)

-----------------------------------------------------------------------------
(* State                                                                   *)

VARIABLES
    \* the MongoDB collection: its documents and whether hash_unique_index exists
    store, hash_unique_index,
    \* hashes the collection held before the runs started
    preexisting,
    \* save_books_to_mongodb, one instance per run
    save_pc, books_to_save, save_idx, num_inserted, num_duplicates, num_errors,
    save_log,
    \* what each call of insert_one raised, in the order of the calls
    insert_raised,
    \* two calls of hash_book: the arguments and the results
    hash_pc, hash_title, hash_authors, hash_year, first_hash, hash_title2,
    hash_authors2, hash_year2, second_hash,
    \* one call of a scrape_*_details function: the site, what the loaded
    \* page shows, and what the call returned
    detail_pc, detail_site, page_fields, book_details,
    \* one call of a search function: the site, the page counter, the pages
    \* requested and what each answer carried, the books collected, and the
    \* browser pages the call holds open
    srch_pc, srch_site, current_page, page_requests, page_results,
    books_from_search_results, open_pages,
    \* the pages of the search whose request or processing raised
    page_errors,
    \* one asyncio.sleep of an except branch: the script, the attempt that
    \* failed, the value random.uniform returned, and the delay slept
    backoff_pc, backoff_script, backoff_attempt, backoff_uniform, backoff_delay,
    \* the batch loop of a URL script with each fetch taken as one step: the
    \* script, the number of URLs, the loop variable i, the calls of the
    \* current gather that have returned, and the waves and pauses so far
    wave_pc, wave_script, total_urls, wave_i, wave_returned, schedule,
    \* the site branches of search_and_scrape.main with each stage taken as
    \* one step: the position, the configured sites and the loop index, the
    \* lists the branches fill, and which branch store-checked and fetched
    \* which search result
    branch_pc, configured_sites, branch_idx, branch_initial_results,
    leanpub_search_results, deduplicated_leanpub_search_results,
    amazon_search_results, deduplicated_amazon_search_results, processed,
    \* regex_parse of the Markdown parser: the entries of the document, the
    \* position in it, the local year and the books parsed
    md_pc, markdown_data, md_line, md_year, md_books,
    \* the existence checks of one gather in their worker threads and the
    \* global handle of database.py: the global, each thread's position, what
    \* its _initialize_mongodb_connection returned, the collection its check
    \* works with, the initialisations started and the handles reset
    _mongo_collection, conn_pc, init_returned, books_collection,
    initialisations, handle_resets,
    \* the pre-flight part of search_and_scrape.main: the position, the
    \* flags -c and -m, what the two checks answered, the answers typed at
    \* the prompt and the status the program exited with
    pre_pc, args_output_to_csv, args_output_to_mongo, can_output_to_csv,
    can_output_to_mongo, choices, exit_status,
    \* search_and_scrape.main: position, loop indices and the locals of the
    \* site branch
    pc, site_idx, query_idx,
    site_initial_search_results, search_results, deduplicated_search_results,
    \* the to_thread existence checks awaited by gather: the finished ones,
    \* the list gather returns and what each check itself returned
    check_done, exists_results, check_returned,
    \* the detail fetches awaited by gather and the list gather returns
    fetch_done, current_site_scraped_results,
    \* the aggregates of main
    scraped_books_data, failed_scrape_attempts, search_duplicates_skipped,
    total_duplicates_skipped, unpublished_books, initial_search_results,
    \* the output flags after the pre-flight checks, what ended the try block
    \* of main, and the lists main called each sink with (<<>>: not called)
    output_to_csv, output_to_mongo, run_error, csv_books, csv_failed_urls,
    mongo_books,
    \* the URL scripts: which script runs, its URL list and its position
    script, all_urls, scrape_pc, batch_start,
    \* scrape_book / scrape_amazon, one call per URL of the batch: position,
    \* loop variable, whether the page is open, the value returned
    task_pc, attempt, page_open, results,
    \* the page.goto calls each call has made
    attempts_used,
    \* how the last attempt of a call ended and whether all ended in a timeout
    last_outcome, only_timeouts,
    \* the lists of the script's main
    books, failed_urls

storeVars == <<store, hash_unique_index, preexisting>>
saveVars == <<save_pc, books_to_save, save_idx, num_inserted, num_duplicates,
              num_errors, save_log, insert_raised>>
siteVars == <<site_initial_search_results, search_results,
              deduplicated_search_results, check_done, exists_results,
              check_returned, fetch_done, current_site_scraped_results>>
aggregateVars == <<scraped_books_data, failed_scrape_attempts,
                   search_duplicates_skipped, total_duplicates_skipped,
                   unpublished_books, initial_search_results>>
runVars == <<output_to_csv, output_to_mongo, run_error, csv_books,
             csv_failed_urls, mongo_books>>
mainVars == <<pc, site_idx, query_idx, siteVars, aggregateVars, runVars>>
taskVars == <<task_pc, attempt, page_open, results, attempts_used,
              last_outcome, only_timeouts>>
scrapeVars == <<script, all_urls, scrape_pc, batch_start, taskVars, books,
                failed_urls>>
hashVars == <<hash_pc, hash_title, hash_authors, hash_year, first_hash,
              hash_title2, hash_authors2, hash_year2, second_hash>>
detailVars == <<detail_pc, detail_site, page_fields, book_details>>
searchVars == <<srch_pc, srch_site, current_page, page_requests, page_results,
                books_from_search_results, open_pages,
               page_errors>>
backoffVars == <<backoff_pc, backoff_script, backoff_attempt, backoff_uniform,
                 backoff_delay>>
waveVars == <<wave_pc, wave_script, total_urls, wave_i, wave_returned,
              schedule>>
branchVars == <<branch_pc, configured_sites, branch_idx, branch_initial_results,
                leanpub_search_results, deduplicated_leanpub_search_results,
                amazon_search_results, deduplicated_amazon_search_results,
                processed>>
parseVars == <<md_pc, markdown_data, md_line, md_year, md_books>>
connVars == <<_mongo_collection, conn_pc, init_returned, books_collection,
              initialisations, handle_resets>>
preflightVars == <<pre_pc, args_output_to_csv, args_output_to_mongo,
                   can_output_to_csv, can_output_to_mongo, choices,
                   exit_status>>
vars == <<storeVars, saveVars, mainVars, scrapeVars, hashVars, detailVars,
          searchVars, backoffVars, waveVars, branchVars, parseVars, connVars,
          preflightVars>>

-----------------------------------------------------------------------------
(* Two runs saving into one collection                                     *)

Runs == {1, 2}
MaxBooks == 2

BookLists == UNION {[1..n -> Records] : n \in 1..MaxBooks}

HasDuplicateHashes(docs) == \E h \in Hashes : CountHash(docs, h) > 1

\* ensure_unique_index_on_hash: creates the index unless it exists; an
\* exception of index_information or create_index is logged and swallowed
ensure_unique_index_on_hash(raises) ==
    IF raises THEN hash_unique_index
    ELSE IF hash_unique_index THEN TRUE
    ELSE IF HasDuplicateHashes(store) THEN FALSE
    ELSE TRUE

\* get_mongo_collection -> _initialize_mongodb_connection: on a connection
\* failure the collection is None, main's can_output_to_mongo is false and
\* the run does not call save_books_to_mongodb
InitializeConnection(r) ==
    /\ save_pc[r] = "connect"
    /\ \E connected \in BOOLEAN, raises \in BOOLEAN :
        IF connected
        THEN /\ hash_unique_index' = ensure_unique_index_on_hash(raises)
             /\ save_pc' = [save_pc EXCEPT ![r] = "insert"]
        ELSE /\ hash_unique_index' = hash_unique_index
             /\ save_pc' = [save_pc EXCEPT ![r] = "unavailable"]
    /\ UNCHANGED <<store, preexisting, books_to_save, save_idx, num_inserted,
                   num_duplicates, num_errors, save_log, insert_raised,
                   mainVars, scrapeVars, hashVars, detailVars, searchVars,
                   backoffVars, waveVars,
                   branchVars,
                   parseVars,
                   connVars,
                   preflightVars>>

\* the documents after the server handled insert_one(book)
InsertInto(docs, book) ==
    IF hash_unique_index /\ CountHash(docs, book.hash) > 0 THEN docs
    ELSE Append(docs, book)

\* what books_collection.insert_one(book) raises: DuplicateKeyError when the
\* server rejects the document for hash_unique_index, another exception
\* when the answer is "error", nothing otherwise
InsertRaised(docs, book, answer) ==
    IF answer = "error" THEN "other"
    ELSE IF answer = "ok" /\ InsertInto(docs, book) = docs THEN "DuplicateKeyError"
    ELSE "none"

\* a handler order in which the conflict falls to the clauses of the other
\* storage errors
SaveOutcomeConflictAsError(docs, book, answer) ==
    IF answer = "error" THEN "error"
    ELSE IF answer = "unack" THEN "error"
    ELSE IF InsertInto(docs, book) = docs THEN "error"
    ELSE "inserted"

\* one iteration of the loop of save_books_to_mongodb
\*   "ok"    : the server answered (acknowledged insert or DuplicateKeyError)
\*   "unack" : result.acknowledged is false
\*   "error" : InvalidDocument, OperationFailure or another exception
SaveOutcome(docs, book, answer) ==
    IF answer = "error" THEN "error"
    ELSE IF answer = "unack" THEN "error"
    ELSE IF InsertInto(docs, book) = docs THEN "duplicate"
    ELSE "inserted"

\* a loop that an error of insert_one ends
LoopEndsOnError(outcome, i, n) ==
    IF i = n \/ outcome = "error" THEN "done" ELSE "insert"

\* for book in books: every except branch ends inside the loop body, so
\* the loop goes on to the next book whatever happened to this one
LoopGoesOn(outcome, i, n) == IF i = n THEN "done" ELSE "insert"

InsertOne(r) ==
    /\ save_pc[r] = "insert"
    /\ \E answer \in {"ok", "unack", "error"} :
        LET book == books_to_save[r][save_idx[r]]
            outcome == SaveOutcome(store, book, answer)
        IN  /\ store' = IF answer = "error" THEN store ELSE InsertInto(store, book)
            /\ num_inserted' = [num_inserted EXCEPT
                    ![r] = @ + (IF outcome = "inserted" THEN 1 ELSE 0)]
            /\ num_duplicates' = [num_duplicates EXCEPT
                    ![r] = @ + (IF outcome = "duplicate" THEN 1 ELSE 0)]
            /\ num_errors' = [num_errors EXCEPT
                    ![r] = @ + (IF outcome = "error" THEN 1 ELSE 0)]
            /\ save_log' = [save_log EXCEPT ![r] = Append(@, outcome)]
            /\ insert_raised' = [insert_raised EXCEPT
                    ![r] = Append(@, InsertRaised(store, book, answer))]
    /\ save_idx' = [save_idx EXCEPT ![r] = @ + 1]
    /\ save_pc' = [save_pc EXCEPT
            ![r] = LoopGoesOn(save_log'[r][save_idx[r]], save_idx[r],
                              Len(books_to_save[r]))]
    /\ UNCHANGED <<hash_unique_index, preexisting, books_to_save, mainVars, scrapeVars,
                   hashVars, detailVars, searchVars, backoffVars, waveVars,
                   branchVars,
                   parseVars,
                   connVars,
                   preflightVars>>

\* main before its scraping logic starts
MainIdle ==
    /\ pc = "idle"
    /\ site_idx = 1
    /\ query_idx = 1
    /\ site_initial_search_results = <<>>
    /\ search_results = <<>>
    /\ deduplicated_search_results = <<>>
    /\ check_done = {}
    /\ exists_results = <<>>
    /\ check_returned = <<>>
    /\ fetch_done = {}
    /\ current_site_scraped_results = <<>>
    /\ scraped_books_data = <<>>
    /\ failed_scrape_attempts = <<>>
    /\ search_duplicates_skipped = 0
    /\ total_duplicates_skipped = 0
    /\ unpublished_books = 0
    /\ initial_search_results = 0
    /\ output_to_csv = FALSE
    /\ output_to_mongo = FALSE
    /\ run_error = "none"
    /\ csv_books = <<>>
    /\ csv_failed_urls = <<>>
    /\ mongo_books = <<>>

\* no URL script is running
ScrapeIdle ==
    /\ script = "none"
    /\ all_urls = <<>>
    /\ scrape_pc = "idle"
    /\ batch_start = NoneInt
    /\ task_pc = <<>>
    /\ attempts_used = <<>>
    /\ attempt = <<>>
    /\ page_open = <<>>
    /\ results = <<>>
    /\ last_outcome = <<>>
    /\ only_timeouts = <<>>
    /\ books = <<>>
    /\ failed_urls = <<>>

\* hash_book is not being called
HashIdle ==
    /\ hash_pc = "idle"
    /\ hash_title = NoneStr
    /\ hash_authors = NoneList
    /\ hash_year = NoneInt
    /\ first_hash = <<>>
    /\ hash_title2 = NoneStr
    /\ hash_authors2 = NoneList
    /\ hash_year2 = NoneInt
    /\ second_hash = <<>>

\* the pre-flight checks are not modelled: they passed
PreflightIdle ==
    /\ pre_pc = "idle"
    /\ args_output_to_csv = FALSE
    /\ args_output_to_mongo = FALSE
    /\ can_output_to_csv = TRUE
    /\ can_output_to_mongo = TRUE
    /\ choices = <<>>
    /\ exit_status = NoneInt

\* no existence check is running
ConnIdle ==
    /\ _mongo_collection = NoneVal
    /\ conn_pc = <<>>
    /\ init_returned = <<>>
    /\ books_collection = <<>>
    /\ initialisations = 0
    /\ handle_resets = 0

\* the Markdown parser is not running
ParseIdle ==
    /\ md_pc = "idle"
    /\ markdown_data = <<>>
    /\ md_line = 0
    /\ md_year = NoneInt
    /\ md_books = <<>>

\* no site branch is running
BranchIdle ==
    /\ branch_pc = "idle"
    /\ configured_sites = <<>>
    /\ branch_idx = 0
    /\ branch_initial_results = <<>>
    /\ leanpub_search_results = <<>>
    /\ deduplicated_leanpub_search_results = <<>>
    /\ amazon_search_results = <<>>
    /\ deduplicated_amazon_search_results = <<>>
    /\ processed = {}

\* no batch loop is running
WaveIdle ==
    /\ wave_pc = "idle"
    /\ wave_script = "none"
    /\ total_urls = 0
    /\ wave_i = 0
    /\ wave_returned = 0
    /\ schedule = <<>>

\* no call is in an except branch
BackoffIdle ==
    /\ backoff_pc = "idle"
    /\ backoff_script = "none"
    /\ backoff_attempt = 0
    /\ backoff_uniform = 0
    /\ backoff_delay = 0

\* no search function is running
SearchIdle ==
    /\ srch_pc = "idle"
    /\ srch_site = "none"
    /\ current_page = 0
    /\ page_requests = <<>>
    /\ page_results = <<>>
    /\ books_from_search_results = <<>>
    /\ open_pages = 0
    /\ page_errors = {}

\* no scrape_*_details call is under way
DetailIdle ==
    /\ detail_pc = "idle"
    /\ detail_site = "none"
    /\ page_fields = {}
    /\ book_details = <<>>

InitSave ==
    /\ MainIdle
    /\ ScrapeIdle
    /\ HashIdle
    /\ DetailIdle
    /\ SearchIdle
    /\ BackoffIdle
    /\ WaveIdle
    /\ BranchIdle
    /\ ParseIdle
    /\ ConnIdle
    /\ PreflightIdle
    /\ store \in {<<>>, <<RecGo>>}
    /\ hash_unique_index \in BOOLEAN
    /\ preexisting = {store[i].hash : i \in 1..Len(store)}
    /\ save_pc = [r \in Runs |-> "connect"]
    /\ books_to_save \in [Runs -> BookLists]
    /\ save_idx = [r \in Runs |-> 1]
    /\ num_inserted = [r \in Runs |-> 0]
    /\ num_duplicates = [r \in Runs |-> 0]
    /\ num_errors = [r \in Runs |-> 0]
    /\ save_log = [r \in Runs |-> <<>>]
    /\ insert_raised = [r \in Runs |-> <<>>]

NextSave == \E r \in Runs : InitializeConnection(r) \/ InsertOne(r)

SpecSave == InitSave /\ [][NextSave]_vars

\* the same two runs, the second of them called with a single book
InitSaveOne ==
    /\ InitSave
    /\ Len(books_to_save[2]) = 1

SpecSaveOne == InitSaveOne /\ [][NextSave]_vars

\* the positions of run r's list that hold a book with hash h
PositionsOf(r, h) == {i \in 1..Len(books_to_save[r]) : books_to_save[r][i].hash = h}

\* run r saved exactly one book with hash h and the store answered the insert
SavedOnce(r, h) ==
    /\ save_pc[r] = "done"
    /\ Cardinality(PositionsOf(r, h)) = 1
    /\ \A i \in PositionsOf(r, h) : save_log[r][i] /= "error"

ReportOf(r, h) == save_log[r][CHOOSE i \in PositionsOf(r, h) : TRUE]

\* C1: when two concurrent runs both save a record with the same, new
\* fingerprint, the store holds exactly one record with it, one run reports
\* it inserted and the other reports it a duplicate.
C1_NoDoubleInsert ==
    \A h \in Hashes :
        (h \notin preexisting /\ SavedOnce(1, h) /\ SavedOnce(2, h)) =>
            /\ CountHash(store, h) = 1
            /\ {ReportOf(1, h), ReportOf(2, h)} = {"inserted", "duplicate"}

-----------------------------------------------------------------------------
(* search_and_scrape.main: the pipeline of one run                         *)

SITES_TO_SCRAPE == <<"amazon", "leanpub">>
SEARCH_QUERIES == <<"C++", "C++ Programming">>

\* most search results one site yields over all its queries in the model
MaxHits == 3
\* the worker-pool width the pipeline is configured with
WorkerPoolWidth == 2

SiteName == SITES_TO_SCRAPE[site_idx]

HitLists(site) == UNION {[1..n -> SearchHits(site)] : n \in 0..MaxHits}

\* the field the site branch deduplicates by: book.get("asin") in the
\* Amazon branch, book.get("book_id") in the Leanpub branch
KeyValue(site, book) == IF site = "amazon" THEN book.asin ELSE book.book_id

\* the loop without seen_ids.add(key_value): nothing is ever a duplicate
RECURSIVE DedupLoopNoAdd(_, _, _, _, _)
DedupLoopNoAdd(site, book_list, seen_ids, kept, skipped) ==
    IF book_list = <<>> THEN [kept |-> kept, skipped |-> skipped]
    ELSE IF KeyValue(site, Head(book_list)) \notin seen_ids
         THEN DedupLoopNoAdd(site, Tail(book_list), seen_ids, Append(kept, Head(book_list)), skipped)
         ELSE DedupLoopNoAdd(site, Tail(book_list), seen_ids, kept, skipped + 1)

\* the loop with insert(0, book) in place of append(book)
RECURSIVE DedupLoopPrepend(_, _, _, _, _)
DedupLoopPrepend(site, book_list, seen_ids, kept, skipped) ==
    IF book_list = <<>> THEN [kept |-> kept, skipped |-> skipped]
    ELSE IF KeyValue(site, Head(book_list)) \notin seen_ids
         THEN DedupLoopPrepend(site, Tail(book_list),
                               seen_ids \cup {KeyValue(site, Head(book_list))},
                               <<Head(book_list)>> \o kept, skipped)
         ELSE DedupLoopPrepend(site, Tail(book_list), seen_ids, kept, skipped + 1)

\* the loop over site_initial_search_results with its seen_ids set
RECURSIVE DedupLoop(_, _, _, _, _)
DedupLoop(site, book_list, seen_ids, kept, skipped) ==
    IF book_list = <<>> THEN [kept |-> kept, skipped |-> skipped]
    ELSE IF KeyValue(site, Head(book_list)) \notin seen_ids
         THEN DedupLoop(site, Tail(book_list),
                        seen_ids \cup {KeyValue(site, Head(book_list))},
                        Append(kept, Head(book_list)), skipped)
         ELSE DedupLoop(site, Tail(book_list), seen_ids, kept, skipped + 1)

IntraBatchDedup(site, book_list) == DedupLoop(site, book_list, {}, <<>>, 0)

\* book["book_url"] of the Leanpub branch: SINGLE_BOOK_API with the slug
WithBookUrl(site, book) ==
    IF site = "leanpub" THEN [book EXCEPT !.book_url = <<"leanpub-api", book.slug>>]
    ELSE book

\* find_one({"asin": asin}): a null asin also matches a document without one
check_amazon_asin_exists_in_db(asin, docs, fails) ==
    IF fails THEN FALSE
    ELSE \E i \in 1..Len(docs) : docs[i].asin = asin

\* amazon_prescrape_deduplicate(asin), which main imports from deduplicate:
\* the check by native identifier of the specification, as
\* leanpub_prescrape_deduplicate does it for Leanpub
amazon_prescrape_deduplicate(asin, docs, fails) ==
    check_amazon_asin_exists_in_db(asin, docs, fails)

\* find_one({"$or": [{"book_id": ..}, {"slug": ..}]}) over the identifiers given
leanpub_prescrape_deduplicate(book_id, book_slug, docs, fails) ==
    IF fails THEN FALSE
    ELSE IF book_id = NoneVal /\ book_slug = NoneVal THEN FALSE
    ELSE \E i \in 1..Len(docs) :
            \/ book_id /= NoneVal /\ docs[i].book_id = book_id
            \/ book_slug /= NoneVal /\ docs[i].slug = book_slug

PrescrapeDeduplicate(site, book, docs, fails) ==
    IF site = "amazon" THEN amazon_prescrape_deduplicate(book.asin, docs, fails)
    ELSE leanpub_prescrape_deduplicate(book.book_id, book.slug, docs, fails)

\* site_initial_search_results = search(..): the results of a query replace
\* those of the queries before it
PlusEqualsAssigns(found, hits) == hits

\* site_initial_search_results += search(..)
PlusEquals(found, hits) == found \o hits

\* for search_item in SEARCH_QUERIES: site_initial_search_results += search(..);
\* the branch resets its lists before the first query
SearchQuery ==
    /\ pc = "search"
    /\ query_idx <= Len(SEARCH_QUERIES)
    /\ \E hits \in HitLists(SiteName) :
        LET found == IF query_idx = 1 THEN <<>> ELSE site_initial_search_results
        IN  /\ Len(found) + Len(hits) <= MaxHits
            /\ site_initial_search_results' = PlusEquals(found, hits)
    /\ search_results' = IF query_idx = 1 THEN <<>> ELSE search_results
    /\ deduplicated_search_results' =
            IF query_idx = 1 THEN <<>> ELSE deduplicated_search_results
    /\ query_idx' = query_idx + 1
    /\ UNCHANGED <<pc, site_idx, check_done, exists_results, check_returned,
                   fetch_done, current_site_scraped_results, aggregateVars,
                   storeVars, saveVars, scrapeVars, runVars, hashVars,
                   detailVars, searchVars, backoffVars, waveVars,
                   branchVars,
                   parseVars,
                   connVars,
                   preflightVars>>

\* the intra-batch deduplication and the start of the existence checks, one
\* to_thread task per remaining book, handed to gather
Deduplicate ==
    /\ pc = "search"
    /\ query_idx > Len(SEARCH_QUERIES)
    /\ LET d == IntraBatchDedup(SiteName, site_initial_search_results)
       IN  /\ search_results' = [i \in 1..Len(d.kept) |-> WithBookUrl(SiteName, d.kept[i])]
           /\ search_duplicates_skipped' = search_duplicates_skipped + d.skipped
           /\ exists_results' = [i \in 1..Len(d.kept) |-> FALSE]
           /\ check_returned' = [i \in 1..Len(d.kept) |-> FALSE]
    /\ initial_search_results' = initial_search_results + Len(site_initial_search_results)
    /\ check_done' = {}
    /\ pc' = "dbcheck"
    /\ UNCHANGED <<site_idx, query_idx, site_initial_search_results,
                   deduplicated_search_results, fetch_done,
                   current_site_scraped_results, scraped_books_data,
                   failed_scrape_attempts, total_duplicates_skipped,
                   unpublished_books, storeVars, saveVars, scrapeVars, runVars,
                   hashVars, detailVars, searchVars, backoffVars, waveVars,
                   branchVars,
                   parseVars,
                   connVars,
                   preflightVars>>

\* results collected in completion order, as as_completed would yield them
GatherResultByCompletion(returned, done, i, value) ==
    [returned EXCEPT ![Cardinality(done) + 1] = value]

\* gather returns the results in the order of the awaitables it was given
GatherResult(returned, done, i, value) == [returned EXCEPT ![i] = value]

\* one existence check finishes in its worker thread
DbCheckDone(i) ==
    /\ pc = "dbcheck"
    /\ i \in 1..Len(search_results) \ check_done
    /\ \E fails \in BOOLEAN :
        LET exists == PrescrapeDeduplicate(SiteName, search_results[i], store, fails)
        IN  /\ exists_results' = GatherResult(exists_results, check_done, i, exists)
            /\ check_returned' = [check_returned EXCEPT ![i] = exists]
    /\ check_done' = check_done \cup {i}
    /\ UNCHANGED <<pc, site_idx, query_idx, site_initial_search_results,
                   search_results, deduplicated_search_results, fetch_done,
                   current_site_scraped_results, aggregateVars, storeVars,
                   saveVars, scrapeVars, runVars,
                   hashVars, detailVars, searchVars, backoffVars, waveVars,
                   branchVars,
                   parseVars,
                   connVars,
                   preflightVars>>

\* for i, book in enumerate(search_results): keep the book unless exists_results[i]
RECURSIVE PartitionLoop(_, _, _, _, _)
PartitionLoop(book_list, exists, i, new, duplicates) ==
    IF i > Len(book_list) THEN [new |-> new, duplicates |-> duplicates]
    ELSE IF ~exists[i]
         THEN PartitionLoop(book_list, exists, i + 1, Append(new, book_list[i]), duplicates)
         ELSE PartitionLoop(book_list, exists, i + 1, new, duplicates + 1)

\* the position after the site branch: the next site or the summary
AfterSite == IF site_idx < Len(SITES_TO_SCRAPE) THEN "search" ELSE "summary"

\* gather returned: partition the books and hand one detail fetch per new
\* book to gather; without new books the branch is over
Partition ==
    /\ pc = "dbcheck"
    /\ check_done = 1..Len(search_results)
    /\ LET p == PartitionLoop(search_results, exists_results, 1, <<>>, 0)
       IN  /\ deduplicated_search_results' = p.new
           /\ total_duplicates_skipped' = total_duplicates_skipped + p.duplicates
           /\ current_site_scraped_results' = [i \in 1..Len(p.new) |-> <<>>]
           /\ IF p.new /= <<>>
              THEN /\ pc' = "scrape"
                   /\ UNCHANGED <<site_idx, query_idx>>
              ELSE /\ pc' = AfterSite
                   /\ site_idx' = site_idx + 1
                   /\ query_idx' = 1
    /\ fetch_done' = {}
    /\ UNCHANGED <<site_initial_search_results, search_results, check_done,
                   exists_results, check_returned, scraped_books_data,
                   failed_scrape_attempts, search_duplicates_skipped,
                   unpublished_books, initial_search_results, storeVars,
                   saveVars, scrapeVars, runVars,
                   hashVars, detailVars, searchVars, backoffVars, waveVars,
                   branchVars,
                   parseVars,
                   connVars,
                   preflightVars>>

\* get_html_book_details(book, browser) / get_leanpub_book_details(url), which
\* main imports from scrape_details: what a call can return, by the
\* specification's FetchDetail, is the record of the book's detail page
\* (<<record>>) or None (<<>>)
get_book_details(book) == {<<>>, <<DetailRecord(book, PageOf(book))>>}

\* one detail fetch returns
FetchDone(i) ==
    /\ pc = "scrape"
    /\ i \in 1..Len(deduplicated_search_results) \ fetch_done
    /\ \E result \in get_book_details(deduplicated_search_results[i]) :
        current_site_scraped_results' =
            GatherResult(current_site_scraped_results, fetch_done, i, result)
    /\ fetch_done' = fetch_done \cup {i}
    /\ UNCHANGED <<pc, site_idx, query_idx, site_initial_search_results,
                   search_results, deduplicated_search_results, check_done,
                   exists_results, check_returned, aggregateVars, storeVars,
                   saveVars, scrapeVars, runVars,
                   hashVars, detailVars, searchVars, backoffVars, waveVars,
                   branchVars,
                   parseVars,
                   connVars,
                   preflightVars>>

\* for result in current_site_scraped_results: append it or count it unpublished
RECURSIVE AggregateLoop(_, _, _)
AggregateLoop(returned, scraped, unpublished) ==
    IF returned = <<>> THEN [scraped |-> scraped, unpublished |-> unpublished]
    ELSE IF Head(returned) /= <<>>
         THEN AggregateLoop(Tail(returned), Append(scraped, Head(returned)[1]), unpublished)
         ELSE AggregateLoop(Tail(returned), scraped, unpublished + 1)

Aggregate ==
    /\ pc = "scrape"
    /\ fetch_done = 1..Len(deduplicated_search_results)
    /\ LET a == AggregateLoop(current_site_scraped_results, scraped_books_data,
                              unpublished_books)
       IN  /\ scraped_books_data' = a.scraped
           /\ unpublished_books' = a.unpublished
    /\ pc' = AfterSite
    /\ site_idx' = site_idx + 1
    /\ query_idx' = 1
    /\ UNCHANGED <<siteVars, failed_scrape_attempts, search_duplicates_skipped,
                   total_duplicates_skipped, initial_search_results, storeVars,
                   saveVars, scrapeVars, runVars, hashVars, detailVars,
                   searchVars, backoffVars, waveVars,
                   branchVars,
                   parseVars,
                   connVars,
                   preflightVars>>

\* a handler that catches nothing: every exception leaves main
ExceptHandlerNoCatch(raised) == "raised"

\* where main goes on after the try block: except KeyboardInterrupt and
\* except Exception log and fall through to the summary; CancelledError is a
\* BaseException that neither clause catches, it leaves main
ExceptHandler(raised) ==
    IF raised \in {"KeyboardInterrupt", "Exception"} THEN "summary" ELSE "raised"

\* the try block is left by an exception.  The locals of the site branch
\* are not read after the try block
LeaveTry(raised) ==
    /\ run_error' = raised
    /\ pc' = ExceptHandler(raised)
    /\ site_initial_search_results' = <<>>
    /\ search_results' = <<>>
    /\ deduplicated_search_results' = <<>>
    /\ check_done' = {}
    /\ exists_results' = <<>>
    /\ check_returned' = <<>>
    /\ fetch_done' = {}
    /\ current_site_scraped_results' = <<>>
    /\ UNCHANGED <<site_idx, query_idx, aggregateVars, output_to_csv,
                   output_to_mongo, csv_books, csv_failed_urls, mongo_books,
                   storeVars, saveVars, scrapeVars, hashVars, detailVars,
                   searchVars, backoffVars, waveVars,
                   branchVars,
                   parseVars,
                   connVars,
                   preflightVars>>

\* the search of a site cannot be set up: in the Amazon branch
\* async_playwright() / p.chromium.launch raise before the first query, in
\* get_leanpub_search_results_via_api httpx.AsyncClient() raises outside the
\* function's try
SearchRaises ==
    /\ pc = "search"
    /\ query_idx <= Len(SEARCH_QUERIES)
    /\ SiteName = "amazon" => query_idx = 1
    /\ LeaveTry("Exception")

\* the user interrupts the run while main is inside the try block.
\* asyncio.run(main()) delivers the interrupt to main either as a
\* KeyboardInterrupt raised in main's own code or, when main is suspended in
\* an await, as the cancellation of the main task
Interrupt ==
    /\ pc \in {"search", "dbcheck", "scrape"}
    /\ \E raised \in {"KeyboardInterrupt", "CancelledError"} : LeaveTry(raised)

\* the list a sink is called with, when it is called
SinkCall(called, list) == IF called THEN <<list>> ELSE <<>>

\* the summary and the output saving: save_books_to_csv and
\* save_failed_urls_to_csv when CSV output is on, save_books_to_mongodb when
\* MongoDB output is on and there are books (the insertions themselves are
\* the steps of SpecSave)
OutputSaving ==
    /\ pc = "summary"
    /\ csv_books' = SinkCall(output_to_csv, scraped_books_data)
    /\ csv_failed_urls' = SinkCall(output_to_csv, failed_scrape_attempts)
    /\ mongo_books' = SinkCall(output_to_mongo /\ scraped_books_data /= <<>>,
                               scraped_books_data)
    /\ pc' = "finished"
    /\ UNCHANGED <<site_idx, query_idx, siteVars, aggregateVars, output_to_csv,
                   output_to_mongo, run_error, storeVars, saveVars, scrapeVars,
                   hashVars, detailVars, searchVars, backoffVars, waveVars,
                   branchVars,
                   parseVars,
                   connVars,
                   preflightVars>>

LeanpubCppDoc == DetailRecord(WithBookUrl("leanpub", LeanpubCpp), PageCpp)

SaveIdle ==
    /\ save_pc = [r \in Runs |-> "idle"]
    /\ books_to_save = [r \in Runs |-> <<>>]
    /\ save_idx = [r \in Runs |-> 1]
    /\ num_inserted = [r \in Runs |-> 0]
    /\ num_duplicates = [r \in Runs |-> 0]
    /\ num_errors = [r \in Runs |-> 0]
    /\ save_log = [r \in Runs |-> <<>>]
    /\ insert_raised = [r \in Runs |-> <<>>]

Init ==
    /\ store \in {<<>>, <<RecCpp1>>, <<LeanpubCppDoc>>}
    /\ hash_unique_index = TRUE
    /\ preexisting = {store[i].hash : i \in 1..Len(store)}
    /\ SaveIdle
    /\ ScrapeIdle
    /\ HashIdle
    /\ DetailIdle
    /\ SearchIdle
    /\ BackoffIdle
    /\ WaveIdle
    /\ BranchIdle
    /\ ParseIdle
    /\ ConnIdle
    /\ PreflightIdle
    /\ pc = "search"
    /\ site_idx = 1
    /\ query_idx = 1
    /\ site_initial_search_results = <<>>
    /\ search_results = <<>>
    /\ deduplicated_search_results = <<>>
    /\ check_done = {}
    /\ exists_results = <<>>
    /\ check_returned = <<>>
    /\ fetch_done = {}
    /\ current_site_scraped_results = <<>>
    /\ scraped_books_data = <<>>
    /\ failed_scrape_attempts = <<>>
    /\ search_duplicates_skipped = 0
    /\ total_duplicates_skipped = 0
    /\ unpublished_books = 0
    /\ initial_search_results = 0
    \* the run was started with -c -m and both pre-flight checks passed
    /\ output_to_csv = TRUE
    /\ output_to_mongo = TRUE
    /\ run_error = "none"
    /\ csv_books = <<>>
    /\ csv_failed_urls = <<>>
    /\ mongo_books = <<>>

Next ==
    \/ SearchQuery
    \/ Deduplicate
    \/ \E i \in 1..MaxHits : DbCheckDone(i)
    \/ Partition
    \/ \E i \in 1..MaxHits : FetchDone(i)
    \/ Aggregate
    \/ SearchRaises
    \/ Interrupt
    \/ OutputSaving

Spec == Init /\ [][Next]_vars

\* the detail fetches of the current site that gather has started and that
\* have not returned
InFlight == IF pc = "scrape" THEN Len(deduplicated_search_results) - Cardinality(fetch_done) ELSE 0

-----------------------------------------------------------------------------
(* Properties of the pipeline                                              *)

\* the elements of the list at the positions that satisfy Keep, in order
RECURSIVE SelectByIndex(_, _, _)
SelectByIndex(book_list, Keep(_), i) ==
    IF i > Len(book_list) THEN <<>>
    ELSE (IF Keep(i) THEN <<book_list[i]>> ELSE <<>>) \o SelectByIndex(book_list, Keep, i + 1)

\* the books whose key no earlier book of the list has
FirstOccurrences(book_list, Key(_)) ==
    LET IsFirst(i) == \A j \in 1..(i - 1) : Key(book_list[j]) /= Key(book_list[i])
    IN  SelectByIndex(book_list, IsFirst, 1)

CodeKey(book) == KeyValue(SiteName, book)

\* the key of section 4.3: the native id when present, else (title, detailUrl)
FallbackKey(book) ==
    IF KeyValue(SiteName, book) /= NoneVal
    THEN <<"id", KeyValue(SiteName, book), <<>>, NoneUrl>>
    ELSE <<"pair", NoneVal, book.title, book.book_url>>

FoundBooks == [i \in 1..Len(site_initial_search_results) |->
                    WithBookUrl(SiteName, site_initial_search_results[i])]

\* C2: every record that reaches the success list passed a store existence
\* check on its recomputed fingerprint, so no record of the success list has
\* a fingerprint the store already holds.
C2_PostFetchRecheck ==
    \A i \in 1..Len(scraped_books_data) :
        CountHash(store, scraped_books_data[i].hash) = 0

\* C6: the detail fetches in flight for a source never exceed the worker-pool
\* width.
C6_BoundedInFlight == InFlight <= WorkerPoolWidth

\* C7: the intra-batch deduplication keeps, in input order, exactly the first
\* book of every key, and adds the number of removed books to the counter.
C7_FirstOccurrenceWins ==
    [][(pc = "search" /\ pc' = "dbcheck") =>
            /\ search_results' = FirstOccurrences(FoundBooks, CodeKey)
            /\ search_duplicates_skipped' - search_duplicates_skipped
                    = Len(site_initial_search_results) - Len(search_results')]_vars

C7_Witness ==
    /\ pc = "dbcheck"
    /\ Len(search_results) >= 2
    /\ search_duplicates_skipped > 0
    /\ site_initial_search_results[1] = AmazonCpp
    /\ site_initial_search_results[2] = AmazonCppSponsored

\* C8: books are keyed by nativeId when present and by (title, detailUrl)
\* otherwise, so books without a nativeId that differ in title or url are
\* all kept.
C8_FallbackKey ==
    pc = "dbcheck" => search_results = FirstOccurrences(FoundBooks, FallbackKey)

\* C9: deduplicating the deduplicated list again returns it unchanged and
\* removes nothing.
C9_Idempotent ==
    pc = "dbcheck" =>
        IntraBatchDedup(SiteName, search_results) = [kept |-> search_results, skipped |-> 0]

C9_Witness ==
    /\ pc = "dbcheck"
    /\ Len(search_results) >= 2
    /\ Len(search_results) < Len(site_initial_search_results)

\* C10: every deduplicated book lands in exactly one of New and Duplicate,
\* according to what its own existence check returned, whatever order the
\* checks finished in, and the New list keeps the input order.  (The step
\* is the partition loop: main leaves the checks without an exception.)
C10_Partition ==
    [][(pc = "dbcheck" /\ pc' /= "dbcheck" /\ run_error' = run_error) =>
            LET IsNew(i) == ~check_returned[i]
                known == Cardinality({i \in 1..Len(search_results) : check_returned[i]})
            IN  /\ deduplicated_search_results' = SelectByIndex(search_results, IsNew, 1)
                /\ total_duplicates_skipped' - total_duplicates_skipped = known
                /\ Len(deduplicated_search_results') + known = Len(search_results)]_vars

C10_Witness ==
    /\ pc = "scrape"
    /\ Len(search_results) = 3
    /\ check_returned[1]
    /\ ~check_returned[2]
    /\ Len(deduplicated_search_results) = 2

-----------------------------------------------------------------------------
(* scrape_existing_books.main and amazon_async.main: the URLs of a file are *)
(* scraped in batches, one scrape_book / scrape_amazon call per URL, the    *)
(* calls of a batch awaited by one asyncio.gather                           *)

\* retries = 5 in scrape_book and in scrape_amazon
retries == 5
\* batch_size = 10 in both scripts
batch_size == 10
\* the most URLs in the file
MaxUrls == 2

\* a URL is its host and the rest
UrlPool == {<<"amazon.com", "dp/N1">>, <<"leanpub.com", "cpp">>,
            <<"example.org", "x">>}
UrlFiles == UNION {[1..n -> UrlPool] : n \in 0..MaxUrls}

identify_website(url) ==
    IF url[1] = "amazon.com" THEN "amazon"
    ELSE IF url[1] = "packtpub.com" THEN "packtpub"
    ELSE IF url[1] = "leanpub.com" THEN "leanpub"
    ELSE IF url[1] = "oreilly.com" THEN "oreilly"
    ELSE "other"

\* the keys of parameters.site_constants
site_constants == {"amazon", "leanpub", "packtpub", "oreilly"}

UrlsOfSite(file, site) ==
    SelectSeq(file, LAMBDA url : identify_website(url) = site)

\* scrape_existing_books: all_urls.extend(urls) for every website but "other",
\* in the order of the website_urls dict; amazon_async: amazon_urls only
UrlsToScrape(s, file) ==
    IF s = "amazon_async" THEN UrlsOfSite(file, "amazon")
    ELSE UrlsOfSite(file, "amazon") \o UrlsOfSite(file, "packtpub")
         \o UrlsOfSite(file, "leanpub") \o UrlsOfSite(file, "oreilly")

\* the site handed to scrape_book; scrape_amazon has no site parameter
SiteOf(s, url) == IF s = "amazon_async" THEN "amazon" ELSE identify_website(url)

\* range(1, retries + 1) in scrape_book, range(retries) in scrape_amazon
FirstAttempt(s) == IF s = "amazon_async" THEN 0 ELSE 1

LastAttemptShort(s) == IF s = "amazon_async" THEN retries - 2 ELSE retries - 1

LastAttempt(s) == IF s = "amazon_async" THEN retries - 1 ELSE retries

\* how one pass through the try block can end: page.goto times out, any
\* other exception, the 404 page, a loaded page without the title, the details
Outcomes == {"timeout", "error", "not_found", "no_details", "ok"}

AfterOutcomeRetryNotFound(s, outcome) ==
    IF outcome \in {"timeout", "error"} THEN "sleep"
    ELSE IF outcome = "not_found" THEN "continue"
    ELSE IF outcome = "no_details"
         THEN IF s = "amazon_async" THEN "give_up" ELSE "continue"
    ELSE "return_details"

\* what the loop body does with the outcome.
\*   timeout, error : the except branches sleep, then the loop goes on
\*   not_found      : scrape_book closes the page and returns None;
\*                    scrape_amazon breaks, closes the page, returns None
\*   no_details     : scrape_book continues with the next attempt;
\*                    scrape_amazon breaks
\*   ok             : the page is closed and the details returned
AfterOutcome(s, outcome) ==
    IF outcome \in {"timeout", "error"} THEN "sleep"
    ELSE IF outcome = "not_found" THEN "give_up"
    ELSE IF outcome = "no_details"
         THEN IF s = "amazon_async" THEN "give_up" ELSE "continue"
    ELSE "return_details"

\* book_details as the call returns it
ScrapedDetails(s, url) ==
    IF s = "amazon_async" THEN [url |-> url, title |-> TitleCpp]
    ELSE [url |-> url, site |-> identify_website(url), title |-> TitleCpp]

\* for i in range(0, total_urls, batch_size): the next value of i
NextBatchStart == IF batch_start = NoneInt THEN 0 ELSE batch_start + batch_size

\* batch_urls = all_urls[i:i + batch_size]
BatchUrls ==
    IF batch_start = NoneInt THEN <<>>
    ELSE SubSeq(all_urls, batch_start + 1,
                IF batch_start + batch_size < Len(all_urls)
                THEN batch_start + batch_size ELSE Len(all_urls))

\* the loop header takes the next batch and creates one call per URL
StartBatch ==
    /\ scrape_pc = "start"
    /\ NextBatchStart < Len(all_urls)
    /\ batch_start' = NextBatchStart
    /\ LET n == IF NextBatchStart + batch_size < Len(all_urls)
                THEN batch_size ELSE Len(all_urls) - NextBatchStart
       IN  /\ task_pc' = [t \in 1..n |-> "new_page"]
           /\ attempt' = [t \in 1..n |-> NoneInt]
           /\ page_open' = [t \in 1..n |-> FALSE]
           /\ results' = [t \in 1..n |-> <<>>]
           /\ attempts_used' = [t \in 1..n |-> 0]
           /\ last_outcome' = [t \in 1..n |-> "none"]
           /\ only_timeouts' = [t \in 1..n |-> TRUE]
    /\ scrape_pc' = "gather"
    /\ UNCHANGED <<script, all_urls, books, failed_urls, storeVars, saveVars,
                   mainVars, hashVars, detailVars, searchVars, backoffVars,
                   waveVars,
                   branchVars,
                   parseVars,
                   connVars,
                   preflightVars>>

\* the call closes its page and returns value (<<>> for None)
Return(t, value) ==
    /\ task_pc' = [task_pc EXCEPT ![t] = "returned"]
    /\ page_open' = [page_open EXCEPT ![t] = FALSE]
    /\ results' = [results EXCEPT ![t] = value]

\* the loop header after attempt number a: the next attempt, or the code after
\* the loop, which closes the page and returns None
NextAttempt(t) ==
    IF attempt[t] < LastAttempt(script)
    THEN /\ attempt' = [attempt EXCEPT ![t] = attempt[t] + 1]
         /\ task_pc' = [task_pc EXCEPT ![t] = "attempt"]
         /\ UNCHANGED <<page_open, results>>
    ELSE /\ Return(t, <<>>)
         /\ UNCHANGED attempt

\* page = await browser.new_page(), the site_constants lookup of scrape_book,
\* and the first pass of the loop header
NewPage(t) ==
    /\ scrape_pc = "gather"
    /\ t \in DOMAIN task_pc
    /\ task_pc[t] = "new_page"
    /\ IF script # "amazon_async" /\ SiteOf(script, BatchUrls[t]) \notin site_constants
       THEN /\ Return(t, <<>>)
            /\ UNCHANGED attempt
       ELSE /\ page_open' = [page_open EXCEPT ![t] = TRUE]
            /\ task_pc' = [task_pc EXCEPT ![t] = "attempt"]
            /\ attempt' = [attempt EXCEPT ![t] = FirstAttempt(script)]
            /\ UNCHANGED results
    /\ UNCHANGED <<script, all_urls, scrape_pc, batch_start, attempts_used,
                   last_outcome, only_timeouts, books, failed_urls, storeVars,
                   saveVars, mainVars, hashVars, detailVars, searchVars,
                   backoffVars, waveVars,
                   branchVars,
                   parseVars,
                   connVars,
                   preflightVars>>

\* browser.new_page() raises (the browser has crashed or was closed): the
\* call stands before the try block of scrape_book, so the exception leaves
\* the coroutine, asyncio.gather re-raises it in main, and main, which has no
\* handler around the gather, ends with it
NewPageRaises(t) ==
    /\ scrape_pc = "gather"
    /\ t \in DOMAIN task_pc
    /\ task_pc[t] = "new_page"
    /\ task_pc' = [task_pc EXCEPT ![t] = "raised"]
    /\ scrape_pc' = "raised"
    /\ UNCHANGED <<script, all_urls, batch_start, attempt, attempts_used,
                   last_outcome, only_timeouts, page_open, results, books,
                   failed_urls, storeVars, saveVars, mainVars, hashVars,
                   detailVars, searchVars, backoffVars, waveVars,
                   branchVars,
                   parseVars,
                   connVars,
                   preflightVars>>

\* one pass through the try block: page.goto and what follows it
Attempt(t) ==
    /\ scrape_pc = "gather"
    /\ t \in DOMAIN task_pc
    /\ task_pc[t] = "attempt"
    /\ \E outcome \in Outcomes :
        /\ attempts_used' = [attempts_used EXCEPT ![t] = attempts_used[t] + 1]
        /\ last_outcome' = [last_outcome EXCEPT ![t] = outcome]
        /\ only_timeouts' =
               [only_timeouts EXCEPT ![t] = only_timeouts[t] /\ outcome = "timeout"]
        /\ LET todo == AfterOutcome(script, outcome)
           IN  IF todo = "sleep"
               THEN /\ task_pc' = [task_pc EXCEPT ![t] = "sleep"]
                    /\ UNCHANGED <<attempt, page_open, results>>
               ELSE IF todo = "continue" THEN NextAttempt(t)
               ELSE IF todo = "give_up"
                    THEN /\ Return(t, <<>>)
                         /\ UNCHANGED attempt
               ELSE /\ Return(t, <<ScrapedDetails(script, BatchUrls[t])>>)
                    /\ UNCHANGED attempt
    /\ UNCHANGED <<script, all_urls, scrape_pc, batch_start, books, failed_urls,
                   storeVars, saveVars, mainVars, hashVars, detailVars,
                   searchVars, backoffVars, waveVars,
                   branchVars,
                   parseVars,
                   connVars,
                   preflightVars>>

\* asyncio.sleep in an except branch is over
WakeUp(t) ==
    /\ scrape_pc = "gather"
    /\ t \in DOMAIN task_pc
    /\ task_pc[t] = "sleep"
    /\ NextAttempt(t)
    /\ UNCHANGED <<script, all_urls, scrape_pc, batch_start, attempts_used,
                   last_outcome, only_timeouts, books, failed_urls, storeVars,
                   saveVars, mainVars, hashVars, detailVars, searchVars,
                   backoffVars, waveVars,
                   branchVars,
                   parseVars,
                   connVars,
                   preflightVars>>

\* for index, result in enumerate(results)
RECURSIVE ResultsLoop(_, _, _, _)
ResultsLoop(returned, urls, scraped, failed) ==
    IF returned = <<>> THEN [books |-> scraped, failed_urls |-> failed]
    ELSE IF Head(returned) # <<>>
         THEN ResultsLoop(Tail(returned), Tail(urls),
                          Append(scraped, Head(returned)[1]), failed)
         ELSE ResultsLoop(Tail(returned), Tail(urls), scraped,
                          Append(failed, Head(urls)))

\* gather has returned: the results loop and the pause between batches
ProcessResults ==
    /\ scrape_pc = "gather"
    /\ \A t \in DOMAIN task_pc : task_pc[t] = "returned"
    /\ LET r == ResultsLoop(results, BatchUrls, books, failed_urls)
       IN  /\ books' = r.books
           /\ failed_urls' = r.failed_urls
    /\ scrape_pc' = "start"
    /\ UNCHANGED <<script, all_urls, batch_start, taskVars, storeVars, saveVars,
                   mainVars, hashVars, detailVars, searchVars, backoffVars,
                   waveVars,
                   branchVars,
                   parseVars,
                   connVars,
                   preflightVars>>

\* the loop is over; scrape_existing_books prints total_time / total_urls
Finish ==
    /\ scrape_pc = "start"
    /\ NextBatchStart >= Len(all_urls)
    /\ scrape_pc' = IF script = "scrape_existing_books" /\ Len(all_urls) = 0
                    THEN "crashed" ELSE "done"
    /\ UNCHANGED <<script, all_urls, batch_start, taskVars, books, failed_urls,
                   storeVars, saveVars, mainVars, hashVars, detailVars,
                   searchVars, backoffVars, waveVars,
                   branchVars,
                   parseVars,
                   connVars,
                   preflightVars>>

InitScrape ==
    /\ store = <<>>
    /\ hash_unique_index = TRUE
    /\ preexisting = {}
    /\ SaveIdle
    /\ MainIdle
    /\ HashIdle
    /\ DetailIdle
    /\ SearchIdle
    /\ BackoffIdle
    /\ WaveIdle
    /\ BranchIdle
    /\ ParseIdle
    /\ ConnIdle
    /\ PreflightIdle
    /\ script \in {"scrape_existing_books", "amazon_async"}
    /\ \E file \in UrlFiles : all_urls = UrlsToScrape(script, file)
    /\ scrape_pc = "start"
    /\ batch_start = NoneInt
    /\ task_pc = <<>>
    /\ attempt = <<>>
    /\ page_open = <<>>
    /\ results = <<>>
    /\ attempts_used = <<>>
    /\ last_outcome = <<>>
    /\ only_timeouts = <<>>
    /\ books = <<>>
    /\ failed_urls = <<>>

NextScrape ==
    \/ StartBatch
    \/ \E t \in 1..batch_size : NewPage(t)
    \/ \E t \in 1..batch_size : NewPageRaises(t)
    \/ \E t \in 1..batch_size : Attempt(t)
    \/ \E t \in 1..batch_size : WakeUp(t)
    \/ ProcessResults
    \/ Finish

SpecScrape == InitScrape /\ [][NextScrape]_vars

\* the URL of call t is in the list of failed URLs
InFailedUrls(t) == \E i \in DOMAIN failed_urls : failed_urls[i] = BatchUrls[t]

C4_NotFoundShortCircuit ==
    /\ [](\A t \in DOMAIN task_pc :
            (attempts_used[t] = 1 /\ last_outcome[t] = "not_found") =>
                /\ task_pc[t] = "returned"
                /\ results[t] = <<>>
                /\ ~page_open[t]
                /\ scrape_pc = "done" => InFailedUrls(t))
    /\ [][\A t \in DOMAIN task_pc :
            (attempts_used[t] = 1 /\ last_outcome[t] = "not_found"
             /\ batch_start' = batch_start) =>
                attempts_used'[t] = 1]_vars

C4_Witness ==
    \E t \in DOMAIN task_pc :
        /\ attempts_used[t] = 1
        /\ last_outcome[t] = "not_found"
        /\ scrape_pc = "done"
        /\ InFailedUrls(t)

\* C5: a call that loaded the page but found no title has returned None and
\* makes no further attempt
C5_MissingTitlePermanent ==
    \A t \in DOMAIN task_pc :
        last_outcome[t] = "no_details" =>
            /\ task_pc[t] = "returned"
            /\ results[t] = <<>>

-----------------------------------------------------------------------------
(* The existence checks before the detail fetches                          *)

\* the store holds a record of the book itself: same title or same URL
OwnRecordInStore(book) ==
    \E d \in 1..Len(store) :
        store[d].title = book.title \/ store[d].url = book.book_url

-----------------------------------------------------------------------------
(* The end of a run: summary, errors, interrupts, sinks                    *)

\* C12: in the summary of a run that went through every site, the search
\* results found equal the duplicates dropped within the batch, plus those
\* found in the store, plus the books scraped, plus the failed attempts
C12_Accounting ==
    (pc = "finished" /\ run_error = "none") =>
        initial_search_results =
            search_duplicates_skipped + total_duplicates_skipped
                + Len(scraped_books_data) + Len(failed_scrape_attempts)

\* C13: the failed attempts handed to save_failed_urls_to_csv are the fetches
\* that ended without a record, one entry for each
C13_FailedRecorded ==
    pc = "finished" =>
        /\ csv_failed_urls /= <<>>
        /\ Len(csv_failed_urls[1]) = unpublished_books

\* C14: after an interrupt main goes on to the summary, and once finished
\* every sink that is on has received the books scraped so far
C14_InterruptFlushes ==
    run_error \in {"KeyboardInterrupt", "CancelledError"} =>
        /\ pc \in {"summary", "finished"}
        /\ pc = "finished" => csv_books = <<scraped_books_data>>

\* C15: an exception raised in a site's pipeline is caught in main: it is
\* recorded, leaves the books scraped so far as they are, main goes on to the
\* summary, and the sinks are called with those books
C15_ErrorKeepsResults ==
    /\ [](run_error = "Exception" =>
            /\ pc \in {"summary", "finished"}
            /\ pc = "finished" =>
                /\ csv_books = <<scraped_books_data>>
                /\ mongo_books = SinkCall(scraped_books_data /= <<>>,
                                          scraped_books_data))
    /\ [][run_error' = "Exception" =>
            scraped_books_data' = scraped_books_data]_vars

\* a run whose second site raised after the first site's books were
\* aggregated, and which handed those books to both sinks
C15_Witness ==
    /\ pc = "finished"
    /\ run_error = "Exception"
    /\ site_idx = 2
    /\ scraped_books_data /= <<>>
    /\ csv_books = <<scraped_books_data>>
    /\ mongo_books = <<scraped_books_data>>

\* C16: a run in which a site's pipeline raised has still gone through the
\* sites after it
C16_SitesIndependent ==
    (pc = "finished" /\ run_error = "Exception") =>
        site_idx = Len(SITES_TO_SCRAPE)

\* C17: no call of scrape_book ends by raising, and the script that gathers
\* the calls of a batch does not end with an exception
C17_ErrorsBecomeOutcomes ==
    /\ \A t \in DOMAIN task_pc : task_pc[t] /= "raised"
    /\ scrape_pc /= "raised"

-----------------------------------------------------------------------------
(* The classification of an insertion                                      *)

\* the calls of insert_one of run r that raised the given exception
RaisedCalls(r, raised) ==
    {k \in 1..Len(insert_raised[r]) : insert_raised[r][k] = raised}

\* C18: an insert_one that raised DuplicateKeyError is logged and counted as
\* a duplicate, one that raised anything else as an error, and num_inserted
\* counts neither of them
C18_InsertClassification ==
    \A r \in Runs :
        /\ \A k \in RaisedCalls(r, "DuplicateKeyError") : save_log[r][k] = "duplicate"
        /\ \A k \in RaisedCalls(r, "other") : save_log[r][k] = "error"
        /\ num_duplicates[r] = Cardinality(RaisedCalls(r, "DuplicateKeyError"))
        /\ num_errors[r] >= Cardinality(RaisedCalls(r, "other"))
        /\ num_inserted[r] + Cardinality(RaisedCalls(r, "DuplicateKeyError"))
                + Cardinality(RaisedCalls(r, "other")) <= Len(insert_raised[r])

\* a finished run in which one insert_one met the unique index and another
\* raised a different error
C18_Witness ==
    \E r \in Runs :
        /\ save_pc[r] = "done"
        /\ RaisedCalls(r, "DuplicateKeyError") /= {}
        /\ RaisedCalls(r, "other") /= {}
        /\ num_duplicates[r] = 1
        /\ num_errors[r] = 1
        /\ num_inserted[r] = 0

-----------------------------------------------------------------------------
(* hash_book called twice: on a book, and on the same book with its        *)
(* authors in another order or its title and authors spelled differently   *)

\* most authors a book of the model has
MaxAuthors == 2

\* "Fuß", " BO"
TitleFuss == <<70, 117, 223>>
AuthorBoVariant == <<32, 66, 79>>

HashTitles == {TitleCpp, TitleCppVariant, TitleGo, TitleFuss, <<>>, NoneStr}
HashAuthors == {AuthorAl, AuthorBo, AuthorBoVariant, NoneStr}
HashAuthorLists ==
    {NoneList} \cup UNION {[1..n -> HashAuthors] : n \in 0..MaxAuthors}
HashYears == {NoneInt, 2020}

\* str.upper() on the code points the model uses: a-z and the small letters
\* of Latin-1 (not the division sign) go to their capitals, the sharp s to
\* "SS", y with diaeresis and the micro sign to capitals outside Latin-1
UpperChar(c) ==
    IF c >= 97 /\ c <= 122 THEN <<c - 32>>
    ELSE IF c >= 224 /\ c <= 254 /\ c /= 247 THEN <<c - 32>>
    ELSE IF c = 223 THEN <<83, 83>>
    ELSE IF c = 255 THEN <<376>>
    ELSE IF c = 181 THEN <<924>>
    ELSE <<c>>

RECURSIVE Upper(_)
Upper(s) == IF s = <<>> THEN <<>> ELSE UpperChar(Head(s)) \o Upper(Tail(s))

\* the string in other letter case or with white space around it; None
\* stays None
Spellings(s) ==
    IF s = NoneStr THEN {s}
    ELSE {s, Upper(s), <<32>> \o Lower(s) \o <<9, 10>>}

\* the lists that hold the same authors in another order
Permuted(list) ==
    IF list = NoneList THEN {list}
    ELSE {[i \in 1..Len(list) |-> list[p[i]]] :
            p \in {q \in [1..Len(list) -> 1..Len(list)] :
                     \A i, j \in 1..Len(list) : q[i] = q[j] => i = j}}

\* the lists that hold the same authors, each spelled in one of its ways
Respelled(list) ==
    IF list = NoneList THEN {list}
    ELSE {l \in [1..Len(list) -> UNION {Spellings(a) : a \in HashAuthors}] :
            \A i \in 1..Len(list) : l[i] \in Spellings(list[i])}

\* hash_book(title, authors, year)
HashBook ==
    /\ hash_pc = "call"
    /\ first_hash' = hash_book(hash_title, hash_authors, hash_year)
    /\ hash_pc' = "hashed"
    /\ UNCHANGED <<hash_title, hash_authors, hash_year, hash_title2,
                   hash_authors2, hash_year2, second_hash, storeVars, saveVars,
                   mainVars, scrapeVars, detailVars, searchVars, backoffVars,
                   waveVars,
                   branchVars,
                   parseVars,
                   connVars,
                   preflightVars>>

\* hash_book on the same title and year with the authors in another order
HashPermuted ==
    /\ hash_pc = "hashed"
    /\ hash_authors2' \in Permuted(hash_authors)
    /\ second_hash' = hash_book(hash_title, hash_authors2', hash_year)
    /\ hash_pc' = "permuted"
    /\ UNCHANGED <<hash_title, hash_authors, hash_year, first_hash,
                   hash_title2, hash_year2, storeVars, saveVars, mainVars,
                   scrapeVars, detailVars, searchVars, backoffVars, waveVars,
                   branchVars,
                   parseVars,
                   connVars,
                   preflightVars>>

\* hash_book on the same book with title and authors spelled differently
HashRespelled ==
    /\ hash_pc = "hashed"
    /\ hash_title2' \in Spellings(hash_title)
    /\ hash_authors2' \in Respelled(hash_authors)
    /\ second_hash' = hash_book(hash_title2', hash_authors2', hash_year)
    /\ hash_pc' = "respelled"
    /\ UNCHANGED <<hash_title, hash_authors, hash_year, first_hash,
                   hash_year2, storeVars, saveVars, mainVars, scrapeVars,
                   detailVars, searchVars, backoffVars, waveVars,
                   branchVars,
                   parseVars,
                   connVars,
                   preflightVars>>

InitHash ==
    /\ store = <<>>
    /\ hash_unique_index = TRUE
    /\ preexisting = {}
    /\ SaveIdle
    /\ MainIdle
    /\ ScrapeIdle
    /\ DetailIdle
    /\ SearchIdle
    /\ BackoffIdle
    /\ WaveIdle
    /\ BranchIdle
    /\ ParseIdle
    /\ ConnIdle
    /\ PreflightIdle
    /\ hash_pc = "call"
    /\ hash_title \in HashTitles
    /\ hash_authors \in HashAuthorLists
    /\ hash_year \in HashYears
    /\ first_hash = <<>>
    /\ hash_title2 = hash_title
    /\ hash_authors2 = hash_authors
    /\ hash_year2 = hash_year
    /\ second_hash = <<>>

NextHash ==
    \/ HashBook
    \/ HashPermuted
    \/ HashRespelled

SpecHash == InitHash /\ [][NextHash]_vars

\* C19: the hash of a book does not change when its authors are given in
\* another order
C19_PermutationInvariant ==
    hash_pc = "permuted" => second_hash = first_hash

\* two different authors were swapped and the hash, not the empty one of a
\* failed call, stayed the same
C19_Witness ==
    /\ hash_pc = "permuted"
    /\ Len(NormAuthors(hash_authors)) = 2
    /\ NormAuthors(hash_authors)[1] /= NormAuthors(hash_authors)[2]
    /\ hash_authors2 /= hash_authors
    /\ first_hash /= <<>>
    /\ second_hash = first_hash

\* C20: the hash of a book does not change when its title or its authors
\* are given in other letter case or with white space around them
C20_SpellingInvariant ==
    hash_pc = "respelled" => second_hash = first_hash

\* C22: every call of hash_book returns a digest, never the empty string
C22_Total ==
    hash_pc \in {"hashed", "permuted", "respelled"} => first_hash /= <<>>

-----------------------------------------------------------------------------
(* hash_book called on two books                                           *)

\* "", "al|bo"
AuthorEmpty == <<>>
AuthorAlBarBo == <<97, 108, 124, 98, 111>>

PairTitles == {TitleGo, <<>>}
PairAuthors == {AuthorAl, AuthorBo, AuthorEmpty, AuthorAlBarBo}
PairAuthorLists ==
    {NoneList} \cup UNION {[1..n -> PairAuthors] : n \in 0..MaxAuthors}

\* hash_book on another book
HashOther ==
    /\ hash_pc = "hashed"
    /\ hash_title2' \in PairTitles
    /\ hash_authors2' \in PairAuthorLists
    /\ hash_year2' \in HashYears
    /\ second_hash' = hash_book(hash_title2', hash_authors2', hash_year2')
    /\ hash_pc' = "other"
    /\ UNCHANGED <<hash_title, hash_authors, hash_year, first_hash, storeVars,
                   saveVars, mainVars, scrapeVars, detailVars, searchVars,
                   backoffVars, waveVars,
                   branchVars,
                   parseVars,
                   connVars,
                   preflightVars>>

InitHashPair ==
    /\ store = <<>>
    /\ hash_unique_index = TRUE
    /\ preexisting = {}
    /\ SaveIdle
    /\ MainIdle
    /\ ScrapeIdle
    /\ DetailIdle
    /\ SearchIdle
    /\ BackoffIdle
    /\ WaveIdle
    /\ BranchIdle
    /\ ParseIdle
    /\ ConnIdle
    /\ PreflightIdle
    /\ hash_pc = "call"
    /\ hash_title \in PairTitles
    /\ hash_authors \in PairAuthorLists
    /\ hash_year \in HashYears
    /\ first_hash = <<>>
    /\ hash_title2 = hash_title
    /\ hash_authors2 = hash_authors
    /\ hash_year2 = hash_year
    /\ second_hash = <<>>

NextHashPair ==
    \/ HashBook
    \/ HashOther

SpecHashPair == InitHashPair /\ [][NextHashPair]_vars

\* title, authors and year after strip, lower and sort, as hash_book
\* serialises them
Normalized(book_title, book_authors, book_year) ==
    <<Lower(Strip(book_title)), NormAuthors(book_authors), book_year>>

\* C21: two books that differ in title, authors or year after normalisation
\* have different hashes
C21_DistinctStayDistinct ==
    (hash_pc = "other"
        /\ Normalized(hash_title, hash_authors, hash_year)
            /= Normalized(hash_title2, hash_authors2, hash_year2))
    => second_hash /= first_hash

-----------------------------------------------------------------------------
(* The scrape_*_details functions: what a loaded page yields                *)

DetailSites == {"amazon", "packtpub", "leanpub", "oreilly"}

\* what a page can show besides the title
OptionalFields == {"authors", "isbn", "tags", "publication_date", "description"}

\* the keys each function reads from the page besides the title
FieldsRead(site) ==
    IF site = "leanpub" THEN OptionalFields \ {"isbn"}
    ELSE IF site = "oreilly" THEN OptionalFields \ {"tags"}
    ELSE OptionalFields

\* the dictionary a function returns once it got through: authors is set
\* in any case (to [] when none were read), the other keys when read, then
\* year and hash
Details(site, found) ==
    LET shown == found \cap FieldsRead(site)
        book_authors == IF "authors" \in shown THEN <<AuthorAl>> ELSE <<>>
        book_year == IF "publication_date" \in shown THEN 2020 ELSE NoneInt
    IN  [site |-> site, title |-> TitleCpp, authors |-> book_authors,
         keys |-> {"url", "site", "title", "authors", "year", "hash"} \cup shown,
         year |-> book_year,
         hash |-> hash_book(TitleCpp, book_authors, book_year)]

\* a function that gives up when no authors were read
scrape_amazon_detailsNeedsAuthors(found) ==
    IF "title" \notin found THEN <<>>
    ELSE IF "authors" \notin found THEN <<>>
    ELSE <<Details("amazon", found)>>

\* scrape_amazon_details: None without the title; every other read is in a
\* try block of its own
scrape_amazon_details(found) ==
    IF "title" \notin found THEN <<>>
    ELSE <<Details("amazon", found)>>

scrape_leanpub_details(found) ==
    IF "title" \notin found THEN <<>>
    ELSE <<Details("leanpub", found)>>

\* scrape_packtpub_details: None without the title, and None when the
\* description cannot be read ("considered essential for Packtpub")
scrape_packtpub_details(found) ==
    IF "title" \notin found THEN <<>>
    ELSE IF "description" \notin found THEN <<>>
    ELSE <<Details("packtpub", found)>>

scrape_oreilly_details(found) ==
    IF "title" \notin found THEN <<>>
    ELSE <<Details("oreilly", found)>>

\* the dispatch on the site in scrape_book
ScrapeDetails ==
    /\ detail_pc = "loaded"
    /\ book_details' =
            IF detail_site = "amazon" THEN scrape_amazon_details(page_fields)
            ELSE IF detail_site = "packtpub" THEN scrape_packtpub_details(page_fields)
            ELSE IF detail_site = "leanpub" THEN scrape_leanpub_details(page_fields)
            ELSE scrape_oreilly_details(page_fields)
    /\ detail_pc' = "scraped"
    /\ UNCHANGED <<detail_site, page_fields, storeVars, saveVars, mainVars,
                   scrapeVars, hashVars, searchVars, backoffVars, waveVars,
                   branchVars,
                   parseVars,
                   connVars,
                   preflightVars>>

InitDetails ==
    /\ store = <<>>
    /\ hash_unique_index = TRUE
    /\ preexisting = {}
    /\ SaveIdle
    /\ MainIdle
    /\ ScrapeIdle
    /\ HashIdle
    /\ SearchIdle
    /\ BackoffIdle
    /\ WaveIdle
    /\ BranchIdle
    /\ ParseIdle
    /\ ConnIdle
    /\ PreflightIdle
    /\ detail_pc = "loaded"
    /\ detail_site \in DetailSites
    /\ page_fields \in SUBSET ({"title"} \cup OptionalFields)
    /\ book_details = <<>>

NextDetails == ScrapeDetails

SpecDetails == InitDetails /\ [][NextDetails]_vars

-----------------------------------------------------------------------------
(* One call of get_leanpub_search_results_via_api or of                    *)
(* get_search_results_via_playwright: the pages of one query               *)

\* site_constants["amazon"]["SEARCH_MAXIMUM_PAGES"]
SEARCH_MAXIMUM_PAGES == 2
\* the books of a full Leanpub page (page_size, 100 in the code)
PageSize == 2
\* most pages Leanpub serves for a query in the model
MaxSearchPages == 3

\* what a page of results can carry
PageLists(site) == UNION {[1..n -> SearchHits(site)] : n \in 0..PageSize}

\* the books of a page put in front of those found so far
ExtendInFront(found, page_books) == page_books \o found

\* all_extracted_books.extend(books_on_current_page), and the appends of the
\* cards of a page to books_from_search_results
Extend(found, page_books) == found \o page_books

\* an except branch that returned an empty list instead of breaking
ExceptBreakDiscards(found) == <<>>

\* the except branches of the Leanpub loop: break, which leaves
\* all_extracted_books as it is
ExceptBreak(found) == found

\* client.get(base_url, params) with page = current_page is awaited
LeanpubGet ==
    /\ srch_pc = "request"
    /\ srch_site = "leanpub"
    /\ page_requests' = Append(page_requests, current_page)
    /\ srch_pc' = "await"
    /\ UNCHANGED <<srch_site, current_page, page_results,
                   books_from_search_results, open_pages, page_errors, storeVars, saveVars,
                   mainVars, scrapeVars, hashVars, detailVars, backoffVars,
                   waveVars,
                   branchVars,
                   parseVars,
                   connVars,
                   preflightVars>>

\* the answer to the request: an error of any kind or an empty data array
\* ends the loop, a page that is not full ends it after its books were
\* added, a full page leads to the next request
LeanpubResponse ==
    /\ srch_pc = "await"
    /\ srch_site = "leanpub"
    /\ \E failed \in BOOLEAN, page_books \in PageLists("leanpub") :
        /\ failed => page_books = <<>>
        /\ Len(page_books) = PageSize => current_page < MaxSearchPages
        /\ page_results' = Append(page_results, page_books)
        /\ page_errors' = IF failed THEN page_errors \cup {current_page} ELSE page_errors
        /\ books_from_search_results' =
                IF failed THEN ExceptBreak(books_from_search_results)
                ELSE Extend(books_from_search_results, page_books)
        /\ IF Len(page_books) < PageSize
           THEN /\ srch_pc' = "return"
                /\ UNCHANGED current_page
           ELSE /\ srch_pc' = "request"
                /\ current_page' = current_page + 1
    /\ UNCHANGED <<srch_site, page_requests, open_pages, storeVars, saveVars,
                   mainVars, scrapeVars, hashVars, detailVars, backoffVars,
                   waveVars,
                   branchVars,
                   parseVars,
                   connVars,
                   preflightVars>>

\* the head of the loop over search_urls: current_page_num += 1,
\* browser.new_page() and page.goto(search_result_page)
AmazonGoto ==
    /\ srch_pc = "request"
    /\ srch_site = "amazon"
    /\ current_page' = current_page + 1
    /\ page_requests' = Append(page_requests, current_page')
    /\ open_pages' = open_pages + 1
    /\ srch_pc' = "await"
    /\ UNCHANGED <<srch_site, page_results, books_from_search_results,
                   page_errors, storeVars, saveVars, mainVars, scrapeVars, hashVars,
                   detailVars, backoffVars, waveVars,
                   branchVars,
                   parseVars,
                   connVars,
                   preflightVars>>

\* the rest of the loop body: no cards (break) or an exception of
\* wait_for_selector (caught by the function's except) end the loop, else
\* the cards are appended and the loop goes on to the next URL
AmazonCards ==
    /\ srch_pc = "await"
    /\ srch_site = "amazon"
    /\ \E failed \in BOOLEAN, page_books \in PageLists("amazon") :
        /\ failed => page_books = <<>>
        /\ page_results' = Append(page_results, page_books)
        /\ page_errors' = IF failed THEN page_errors \cup {current_page} ELSE page_errors
        /\ books_from_search_results' = Extend(books_from_search_results, page_books)
        /\ srch_pc' = IF page_books = <<>> \/ current_page = SEARCH_MAXIMUM_PAGES
                      THEN "return" ELSE "request"
    /\ UNCHANGED <<srch_site, current_page, page_requests, open_pages,
                   storeVars, saveVars, mainVars, scrapeVars, hashVars,
                   detailVars, backoffVars, waveVars,
                   branchVars,
                   parseVars,
                   connVars,
                   preflightVars>>

\* the end of the function: the finally clause closes the page the variable
\* page holds, which is the last one opened, and the list is returned
SearchReturn ==
    /\ srch_pc = "return"
    /\ open_pages' = IF open_pages > 0 THEN open_pages - 1 ELSE 0
    /\ srch_pc' = "done"
    /\ UNCHANGED <<srch_site, current_page, page_requests, page_results,
                   books_from_search_results, page_errors, storeVars, saveVars, mainVars,
                   scrapeVars, hashVars, detailVars, backoffVars, waveVars,
                   branchVars,
                   parseVars,
                   connVars,
                   preflightVars>>

InitSearch ==
    /\ store = <<>>
    /\ hash_unique_index = TRUE
    /\ preexisting = {}
    /\ SaveIdle
    /\ MainIdle
    /\ ScrapeIdle
    /\ HashIdle
    /\ DetailIdle
    /\ BackoffIdle
    /\ WaveIdle
    /\ BranchIdle
    /\ ParseIdle
    /\ ConnIdle
    /\ PreflightIdle
    /\ srch_pc = "request"
    /\ srch_site \in {"amazon", "leanpub"}
    /\ current_page = IF srch_site = "leanpub" THEN 1 ELSE 0
    /\ page_requests = <<>>
    /\ page_results = <<>>
    /\ books_from_search_results = <<>>
    /\ open_pages = 0
    /\ page_errors = {}

NextSearch ==
    \/ LeanpubGet
    \/ LeanpubResponse
    \/ AmazonGoto
    \/ AmazonCards
    \/ SearchReturn

SpecSearch == InitSearch /\ [][NextSearch]_vars

RECURSIVE Concat(_)
Concat(lists) == IF lists = <<>> THEN <<>> ELSE Head(lists) \o Concat(Tail(lists))

\* C24: the pages of a query are requested in the order 1, 2, 3, ..., a page
\* is requested only when all pages before it were answered, and the books
\* found are the pages' books, one page after the other in that order
C24_PagesInOrder ==
    srch_pc /= "idle" =>
        /\ \A n \in 1..Len(page_requests) : page_requests[n] = n
        /\ Len(page_results) =
                IF srch_pc = "await" THEN Len(page_requests) - 1
                ELSE Len(page_requests)
        /\ books_from_search_results = Concat(page_results)

\* a search that has returned the books of two pages that differ
C24_Witness ==
    /\ srch_pc = "done"
    /\ page_requests = <<1, 2>>
    /\ Len(page_results) = 2
    /\ page_results[1] /= <<>>
    /\ page_results[2] /= <<>>
    /\ page_results[1][1] /= page_results[2][1]
    /\ books_from_search_results = page_results[1] \o page_results[2]

-----------------------------------------------------------------------------
(* The delay slept in the except branches of scrape_book and scrape_amazon  *)
(* Times are in tenths of a second.                                         *)

\* random.uniform(2, 4), to the tenth of a second
UniformValues == 20..40

\* asyncio.sleep(random.uniform(2, 4) * attempt) in scrape_book,
\* asyncio.sleep(2 ** attempt) in scrape_amazon
BackoffDelay(s, a, u) ==
    IF s = "amazon_async" THEN 10 * 2^a ELSE u * a

\* the except branch of a failed attempt sleeps
Backoff ==
    /\ backoff_pc = "failed"
    /\ backoff_delay' = BackoffDelay(backoff_script, backoff_attempt, backoff_uniform)
    /\ backoff_pc' = "slept"
    /\ UNCHANGED <<backoff_script, backoff_attempt, backoff_uniform, storeVars,
                   saveVars, mainVars, scrapeVars, hashVars, detailVars,
                   searchVars, waveVars,
                   branchVars,
                   parseVars,
                   connVars,
                   preflightVars>>

InitBackoff ==
    /\ store = <<>>
    /\ hash_unique_index = TRUE
    /\ preexisting = {}
    /\ SaveIdle
    /\ MainIdle
    /\ ScrapeIdle
    /\ HashIdle
    /\ DetailIdle
    /\ SearchIdle
    /\ WaveIdle
    /\ BranchIdle
    /\ ParseIdle
    /\ ConnIdle
    /\ PreflightIdle
    /\ backoff_pc = "failed"
    /\ backoff_script \in {"scrape_existing_books", "amazon_async"}
    /\ backoff_attempt \in FirstAttempt(backoff_script)..LastAttempt(backoff_script)
    /\ backoff_uniform \in UniformValues
    /\ backoff_delay = 0

NextBackoff == Backoff

SpecBackoff == InitBackoff /\ [][NextBackoff]_vars

\* the number n of the failed attempt, counted from 1
FailedAttemptNo == backoff_attempt - FirstAttempt(backoff_script) + 1

\* the base delay: the least delay after the first failed attempt
BaseDelay(s) == IF s = "amazon_async" THEN 10 ELSE 20

\* C25: the delay slept after the n-th failed attempt is at least
\* base * 2^(n-1) and less than base * 2^(n-1) + base
C25_BackoffBounds ==
    backoff_pc = "slept" =>
        LET base == BaseDelay(backoff_script)
            n == FailedAttemptNo
        IN  /\ base * 2^(n - 1) <= backoff_delay
            /\ backoff_delay < base * 2^(n - 1) + base

-----------------------------------------------------------------------------
(* The batch loops of scrape_existing_books.py (the script beside the       *)
(* package and the one inside it) and amazon_async.py, with a fetch taken   *)
(* as a single step                                                        *)

\* most URLs a script is given in the model
MaxTotalUrls == 21

BatchScripts ==
    {"scrape_existing_books", "src_scrape_existing_books", "amazon_async"}

\* len(batch_urls) for batch_urls = all_urls[i:i + batch_size]
WaveSize(i, total) == IF i + batch_size < total THEN batch_size ELSE total - i

\* a loop that pauses after every batch
MoreBatchesAlways(s, i, total) == TRUE

\* the condition of the pause: i + batch_size < total_urls, and
\* current_batch_num < total_batches in the script inside the package
MoreBatches(s, i, total) ==
    IF s = "src_scrape_existing_books"
    THEN (i \div batch_size) + 1 < (total + batch_size - 1) \div batch_size
    ELSE i + batch_size < total

\* the positional arguments the script hands to scrape_book / scrape_amazon,
\* and the parameters the function has
ArgumentsGiven(s) ==
    IF s = "src_scrape_existing_books" THEN 4
    ELSE IF s = "amazon_async" THEN 2 ELSE 3
ParametersOf(s) == IF s = "amazon_async" THEN 2 ELSE 3

\* the loop header takes the next batch, one call per URL is created and
\* handed to asyncio.gather
StartWave ==
    /\ wave_pc = "loop"
    /\ wave_i < total_urls
    /\ ArgumentsGiven(wave_script) = ParametersOf(wave_script)
    /\ wave_returned' = 0
    /\ schedule' = Append(schedule,
            [kind |-> "wave", running |-> 0, first |-> wave_i,
             size |-> WaveSize(wave_i, total_urls)])
    /\ wave_pc' = "gather"
    /\ UNCHANGED <<wave_script, total_urls, wave_i, storeVars, saveVars,
                   mainVars, scrapeVars, hashVars, detailVars, searchVars,
                   backoffVars,
                   branchVars,
                   parseVars,
                   connVars,
                   preflightVars>>

\* the loop header takes the next batch and the call for its first URL
\* raises TypeError, because it has more arguments than the function has
\* parameters: main ends with the exception
CallRaises ==
    /\ wave_pc = "loop"
    /\ wave_i < total_urls
    /\ ArgumentsGiven(wave_script) /= ParametersOf(wave_script)
    /\ wave_pc' = "raised"
    /\ UNCHANGED <<wave_script, total_urls, wave_i, wave_returned, schedule,
                   storeVars, saveVars, mainVars, scrapeVars, hashVars,
                   detailVars, searchVars, backoffVars, branchVars, parseVars,
                   connVars,
                   preflightVars>>

\* one call of the batch returns
FetchReturns ==
    /\ wave_pc = "gather"
    /\ wave_returned < WaveSize(wave_i, total_urls)
    /\ wave_returned' = wave_returned + 1
    /\ UNCHANGED <<wave_pc, wave_script, total_urls, wave_i, schedule, storeVars,
                   saveVars, mainVars, scrapeVars, hashVars, detailVars,
                   searchVars, backoffVars,
                   branchVars,
                   parseVars,
                   connVars,
                   preflightVars>>

\* gather has returned and the results were read: the script sleeps
\* random.uniform(3, 5) when more batches follow, else the loop goes on
AfterGather ==
    /\ wave_pc = "gather"
    /\ wave_returned = WaveSize(wave_i, total_urls)
    /\ IF MoreBatches(wave_script, wave_i, total_urls)
       THEN /\ wave_pc' = "pause"
            /\ schedule' = Append(schedule,
                    [kind |-> "delay",
                     running |-> WaveSize(wave_i, total_urls) - wave_returned])
            /\ UNCHANGED wave_i
       ELSE /\ wave_pc' = "loop"
            /\ wave_i' = wave_i + batch_size
            /\ UNCHANGED schedule
    /\ UNCHANGED <<wave_script, total_urls, wave_returned, storeVars, saveVars,
                   mainVars, scrapeVars, hashVars, detailVars, searchVars,
                   backoffVars,
                   branchVars,
                   parseVars,
                   connVars,
                   preflightVars>>

\* the pause is over
PauseOver ==
    /\ wave_pc = "pause"
    /\ wave_pc' = "loop"
    /\ wave_i' = wave_i + batch_size
    /\ UNCHANGED <<wave_script, total_urls, wave_returned, schedule, storeVars,
                   saveVars, mainVars, scrapeVars, hashVars, detailVars,
                   searchVars, backoffVars,
                   branchVars,
                   parseVars,
                   connVars,
                   preflightVars>>

\* range(0, total_urls, batch_size) is exhausted
LoopEnd ==
    /\ wave_pc = "loop"
    /\ wave_i >= total_urls
    /\ wave_pc' = "done"
    /\ UNCHANGED <<wave_script, total_urls, wave_i, wave_returned, schedule,
                   storeVars, saveVars, mainVars, scrapeVars, hashVars,
                   detailVars, searchVars, backoffVars,
                   branchVars,
                   parseVars,
                   connVars,
                   preflightVars>>

InitBatches ==
    /\ store = <<>>
    /\ hash_unique_index = TRUE
    /\ preexisting = {}
    /\ SaveIdle
    /\ MainIdle
    /\ ScrapeIdle
    /\ HashIdle
    /\ DetailIdle
    /\ SearchIdle
    /\ BackoffIdle
    /\ BranchIdle
    /\ ParseIdle
    /\ ConnIdle
    /\ PreflightIdle
    /\ wave_pc = "loop"
    /\ wave_script \in BatchScripts
    /\ total_urls \in 0..MaxTotalUrls
    /\ wave_i = 0
    /\ wave_returned = 0
    /\ schedule = <<>>

NextBatches ==
    \/ StartWave
    \/ CallRaises
    \/ FetchReturns
    \/ AfterGather
    \/ PauseOver
    \/ LoopEnd

SpecBatches == InitBatches /\ [][NextBatches]_vars

\* C26: waves and pauses alternate, beginning and ending with a wave, and a
\* pause begins only when every fetch of the wave before it has returned
C26_DelayBetweenWaves ==
    wave_pc /= "idle" =>
        /\ \A k \in 1..(Len(schedule) - 1) : schedule[k].kind /= schedule[k + 1].kind
        /\ schedule /= <<>> => schedule[1].kind = "wave"
        /\ (wave_pc = "done" /\ schedule /= <<>>) =>
                schedule[Len(schedule)].kind = "wave"
        /\ \A k \in 1..Len(schedule) :
                schedule[k].kind = "delay" => schedule[k].running = 0
        /\ wave_pc = "done" =>
                Cardinality({k \in 1..Len(schedule) : schedule[k].kind = "wave"})
                    = (total_urls + batch_size - 1) \div batch_size

\* a finished run of three waves with the two pauses between them
C26_Witness ==
    /\ wave_pc = "done"
    /\ Len(schedule) = 5
    /\ schedule[2].kind = "delay"
    /\ schedule[4].kind = "delay"
    /\ schedule[5].kind = "wave"

-----------------------------------------------------------------------------
(* The states of a fetch in scrape_book and scrape_amazon                   *)

\* where a call stands, in the words of the fetch state machine
FetchState(position, returned) ==
    IF position = "new_page" THEN "Pending"
    ELSE IF position = "attempt" THEN "Fetching"
    ELSE IF position = "sleep" THEN "RetryWait"
    ELSE IF position = "raised" THEN "Raised"
    ELSE IF returned /= <<>> THEN "Success"
    ELSE "PermanentlyFailed"

FetchMoves ==
    {<<"Pending", "Fetching">>, <<"Fetching", "Success">>,
     <<"Fetching", "RetryWait">>, <<"RetryWait", "Fetching">>,
     <<"Fetching", "PermanentlyFailed">>}

\* C27: a call changes its state only along Pending -> Fetching,
\* Fetching -> Success, Fetching -> RetryWait, RetryWait -> Fetching and
\* Fetching -> PermanentlyFailed (a call that new_page() ends with an
\* exception is left aside here)
C27_FetchStateMachine ==
    [][batch_start' = batch_start =>
        \A t \in DOMAIN task_pc :
            LET before == FetchState(task_pc[t], results[t])
                after == FetchState(task_pc'[t], results'[t])
            IN  before /= after /\ after /= "Raised"
                    => <<before, after>> \in FetchMoves]_vars

\* C30: a call waits only between two attempts: it never sleeps after its
\* last attempt
C30_NoWaitAfterFinalAttempt ==
    \A t \in DOMAIN task_pc :
        task_pc[t] = "sleep" => attempt[t] < LastAttempt(script)

-----------------------------------------------------------------------------
(* The site branches of search_and_scrape.main                             *)

\* the commented alternative of SITES_TO_SCRAPE in parameters.py
SITES_TO_SCRAPE_ALL == <<"amazon", "leanpub", "packtpub", "oreilly">>

\* most search results one branch gets over all its queries
MaxFound == 2

FoundKeys == {"k1", "k2"}

\* what the search stage of a branch can return: records that carry the key
\* the branch deduplicates by and the branch that found them
FoundLists(site_name) ==
    UNION {[1..n -> [found_by : {site_name}, key : FoundKeys]] : n \in 0..MaxFound}

\* the branches of the if/elif chain
Branches == {"leanpub", "amazon", "packtpub"}

\* the lists a branch appends to and reads from: the Packtpub branch uses
\* the lists of the Amazon branch
ListsOf(site_name) == IF site_name = "leanpub" THEN "leanpub" ELSE "amazon"

BranchSite == configured_sites[branch_idx]

\* for book in site_initial_search_results: append unless its key was seen
RECURSIVE SeenIdsLoop(_, _, _)
SeenIdsLoop(found, seen_ids, kept) ==
    IF found = <<>> THEN kept
    ELSE IF Head(found).key \notin seen_ids
         THEN SeenIdsLoop(Tail(found), seen_ids \cup {Head(found).key},
                          Append(kept, Head(found)))
         ELSE SeenIdsLoop(Tail(found), seen_ids, kept)

\* for i, book in enumerate(list): append the books that do not exist
RECURSIVE NotExisting(_, _, _)
NotExisting(book_list, exists, i) ==
    IF i > Len(book_list) THEN <<>>
    ELSE (IF exists[i] THEN <<>> ELSE <<book_list[i]>>)
         \o NotExisting(book_list, exists, i + 1)

StageRecords(stage, book_list) ==
    {[branch |-> BranchSite, stage |-> stage, book |-> book_list[i]] :
        i \in 1..Len(book_list)}

\* the head of a branch and its searches: the Leanpub and the Amazon branch
\* empty their own lists, the Packtpub branch empties packtpub lists that
\* nothing reads
BranchSearch ==
    /\ branch_pc = "site"
    /\ BranchSite \in Branches
    /\ \E found \in FoundLists(BranchSite) : branch_initial_results' = found
    /\ IF BranchSite = "leanpub"
       THEN /\ leanpub_search_results' = <<>>
            /\ deduplicated_leanpub_search_results' = <<>>
            /\ UNCHANGED <<amazon_search_results, deduplicated_amazon_search_results>>
       ELSE IF BranchSite = "amazon"
       THEN /\ amazon_search_results' = <<>>
            /\ deduplicated_amazon_search_results' = <<>>
            /\ UNCHANGED <<leanpub_search_results, deduplicated_leanpub_search_results>>
       ELSE UNCHANGED <<leanpub_search_results, deduplicated_leanpub_search_results,
                        amazon_search_results, deduplicated_amazon_search_results>>
    /\ branch_pc' = "dedup"
    /\ UNCHANGED <<configured_sites, branch_idx, processed, storeVars, saveVars,
                   mainVars, scrapeVars, hashVars, detailVars, searchVars,
                   backoffVars, waveVars,
                   parseVars,
                   connVars,
                   preflightVars>>

\* a site without a branch in the chain: the loop goes on
NoBranch ==
    /\ branch_pc = "site"
    /\ BranchSite \notin Branches
    /\ branch_idx' = branch_idx + 1
    /\ branch_pc' = IF branch_idx < Len(configured_sites) THEN "site" ELSE "done"
    /\ UNCHANGED <<configured_sites, branch_initial_results, leanpub_search_results,
                   deduplicated_leanpub_search_results, amazon_search_results,
                   deduplicated_amazon_search_results, processed, storeVars,
                   saveVars, mainVars, scrapeVars, hashVars, detailVars,
                   searchVars, backoffVars, waveVars,
                   parseVars,
                   connVars,
                   preflightVars>>

\* the deduplication within the search results of the branch
BranchDedup ==
    /\ branch_pc = "dedup"
    /\ LET kept == SeenIdsLoop(branch_initial_results, {}, <<>>)
       IN  IF ListsOf(BranchSite) = "leanpub"
           THEN /\ leanpub_search_results' = leanpub_search_results \o kept
                /\ UNCHANGED amazon_search_results
           ELSE /\ amazon_search_results' = amazon_search_results \o kept
                /\ UNCHANGED leanpub_search_results
    /\ branch_pc' = "check"
    /\ UNCHANGED <<configured_sites, branch_idx, branch_initial_results,
                   deduplicated_leanpub_search_results,
                   deduplicated_amazon_search_results, processed, storeVars,
                   saveVars, mainVars, scrapeVars, hashVars, detailVars,
                   searchVars, backoffVars, waveVars,
                   parseVars,
                   connVars,
                   preflightVars>>

\* the existence checks of every book of the list and the loop that keeps
\* the new ones
BranchDbCheck ==
    /\ branch_pc = "check"
    /\ LET checked == IF ListsOf(BranchSite) = "leanpub"
                      THEN leanpub_search_results ELSE amazon_search_results
       IN  /\ processed' = processed \cup StageRecords("store_check", checked)
           /\ \E exists \in [1..Len(checked) -> BOOLEAN] :
                IF ListsOf(BranchSite) = "leanpub"
                THEN /\ deduplicated_leanpub_search_results' =
                            deduplicated_leanpub_search_results
                            \o NotExisting(checked, exists, 1)
                     /\ UNCHANGED deduplicated_amazon_search_results
                ELSE /\ deduplicated_amazon_search_results' =
                            deduplicated_amazon_search_results
                            \o NotExisting(checked, exists, 1)
                     /\ UNCHANGED deduplicated_leanpub_search_results
    /\ branch_pc' = "scrape"
    /\ UNCHANGED <<configured_sites, branch_idx, branch_initial_results,
                   leanpub_search_results, amazon_search_results, storeVars,
                   saveVars, mainVars, scrapeVars, hashVars, detailVars,
                   searchVars, backoffVars, waveVars,
                   parseVars,
                   connVars,
                   preflightVars>>

\* one detail fetch per book of the deduplicated list, and the next site
BranchScrape ==
    /\ branch_pc = "scrape"
    /\ LET fetched == IF ListsOf(BranchSite) = "leanpub"
                      THEN deduplicated_leanpub_search_results
                      ELSE deduplicated_amazon_search_results
       IN  processed' = processed \cup StageRecords("detail_fetch", fetched)
    /\ branch_idx' = branch_idx + 1
    /\ branch_pc' = IF branch_idx < Len(configured_sites) THEN "site" ELSE "done"
    /\ UNCHANGED <<configured_sites, branch_initial_results, leanpub_search_results,
                   deduplicated_leanpub_search_results, amazon_search_results,
                   deduplicated_amazon_search_results, storeVars, saveVars,
                   mainVars, scrapeVars, hashVars, detailVars, searchVars,
                   backoffVars, waveVars,
                   parseVars,
                   connVars,
                   preflightVars>>

InitBranches ==
    /\ store = <<>>
    /\ hash_unique_index = TRUE
    /\ preexisting = {}
    /\ SaveIdle
    /\ MainIdle
    /\ ScrapeIdle
    /\ HashIdle
    /\ DetailIdle
    /\ SearchIdle
    /\ BackoffIdle
    /\ WaveIdle
    /\ ParseIdle
    /\ ConnIdle
    /\ PreflightIdle
    /\ branch_pc = "site"
    /\ configured_sites \in {SITES_TO_SCRAPE, SITES_TO_SCRAPE_ALL}
    /\ branch_idx = 1
    /\ branch_initial_results = <<>>
    /\ leanpub_search_results = <<>>
    /\ deduplicated_leanpub_search_results = <<>>
    /\ amazon_search_results = <<>>
    /\ deduplicated_amazon_search_results = <<>>
    /\ processed = {}

NextBranches == BranchSearch \/ NoBranch \/ BranchDedup \/ BranchDbCheck \/ BranchScrape

SpecBranches == InitBranches /\ [][NextBranches]_vars

\* C28: a branch store-checks and fetches only the search results of its
\* own search stage
C28_OwnCandidatesOnly ==
    \A p \in processed : p.book.found_by = p.branch

-----------------------------------------------------------------------------
(* regex_parse of the Markdown parser and the hash_book it imports         *)

COMMA == 44
QUOTE == 39

IsDigit(c) == c >= 48 /\ c <= 57

\* "None"
StrNone == <<78, 111, 110, 101>>

\* repr() of a list element: None, or a string without quotes or backslashes
Repr(a) == IF a = NoneStr THEN StrNone ELSE <<QUOTE>> \o a \o <<QUOTE>>

\* ", ".join(repr(a) for a in authors)
RECURSIVE JoinRepr(_)
JoinRepr(authors) ==
    IF authors = <<>> THEN <<>>
    ELSE IF Len(authors) = 1 THEN Repr(authors[1])
    ELSE Repr(authors[1]) \o <<COMMA, 32>> \o JoinRepr(Tail(authors))

\* hash_book of book_utils.py next to the parser: '' without a title, else
\* the digest of f"{title}|{authors}|{year}" with the list, or None for an
\* empty list, and the year as str() prints them
examples_hash_book(book_title, book_authors, book_year) ==
    IF book_title = <<>> THEN <<>>
    ELSE <<"sha256",
           book_title \o <<BAR>>
           \o (IF book_authors = <<>> \/ book_authors = NoneList THEN StrNone
               ELSE <<91>> \o JoinRepr(book_authors) \o <<93>>)
           \o <<BAR>>
           \o (IF book_year = NoneInt THEN StrNone ELSE StrOfInt(book_year))>>

\* the index of the last comma of the text, 0 without one
RECURSIVE LastComma(_)
LastComma(text) ==
    IF text = <<>> THEN 0
    ELSE IF text[Len(text)] = COMMA THEN Len(text)
    ELSE LastComma(SubSeq(text, 1, Len(text) - 1))

AllDigits(text) == text /= <<>> /\ \A i \in 1..Len(text) : IsDigit(text[i])

\* ^[\D]+$
NoDigits(text) == text /= <<>> /\ \A i \in 1..Len(text) : ~IsDigit(text[i])

\* what follows the last comma, without leading white space
AfterLastComma(text) == LStrip(SubSeq(text, LastComma(text) + 1, Len(text)))

\* (?:,\s*(\d{4}))?$ matches a year at the end of the text
EndsWithYear(text) ==
    /\ LastComma(text) > 0
    /\ Len(AfterLastComma(text)) = 4
    /\ AllDigits(AfterLastComma(text))

\* the groups of ^(.*?)(?:,\s*(\d{4}))?$
Group1(text) ==
    IF EndsWithYear(text) THEN SubSeq(text, 1, LastComma(text) - 1) ELSE text
Group2(text) == IF EndsWithYear(text) THEN AfterLastComma(text) ELSE NoneStr

\* str.split(",")
RECURSIVE SplitComma(_, _)
SplitComma(text, piece) ==
    IF text = <<>> THEN <<piece>>
    ELSE IF Head(text) = COMMA THEN <<piece>> \o SplitComma(Tail(text), <<>>)
    ELSE SplitComma(Tail(text), Append(piece, Head(text)))

\* int() of a string of digits
RECURSIVE IntOf(_)
IntOf(digits) ==
    IF digits = <<>> THEN 0
    ELSE 10 * IntOf(SubSeq(digits, 1, Len(digits) - 1)) + (digits[Len(digits)] - 48)

\* [author.strip() for author in group.split(",") if re.match(author_pattern, author)]
AuthorsOf(group) ==
    LET pieces == SelectSeq(SplitComma(group, <<>>), NoDigits)
    IN  [i \in 1..Len(pieces) |-> Strip(pieces[i])]

\* the authors and the year regex_parse takes from the second pair of
\* parentheses of an entry, NoneStr when the entry has only the URL
ParsedAuthors(author_year) ==
    IF author_year = NoneStr THEN <<NoneStr>>
    ELSE IF AllDigits(Group1(author_year)) THEN <<NoneStr>>
    ELSE AuthorsOf(Group1(author_year))

\* the year before 'if year: year = int(year)'
ParsedYear(author_year) ==
    IF author_year = NoneStr THEN NoneInt
    ELSE IF AllDigits(Group1(author_year)) THEN IntOf(Group1(author_year))
    ELSE IF Group2(author_year) = NoneStr THEN NoneInt
    ELSE IntOf(Group2(author_year))

\* most entries of a document of the model
MaxEntries == 2

\* the second parentheses of the entries of the model: none, "", "Al",
\* "Al, 2020", "2020", "Al, Bo"
AuthorYearTexts ==
    {NoneStr, <<>>, AuthorAl, AuthorAl \o <<COMMA, 32, 50, 48, 50, 48>>,
     <<50, 48, 50, 48>>, AuthorAl \o <<COMMA, 32>> \o AuthorBo}

\* an entry '* [title](url) (author_year)' and whether validators.url
\* accepts its URL
MdEntries == [title : {TitleCpp, TitleGo}, author_year : AuthorYearTexts,
              url_valid : BOOLEAN]

\* one '* ' line: an entry with an invalid URL is skipped, another one is
\* parsed, hashed and appended
ParseEntry ==
    /\ md_pc = "lines"
    /\ md_line <= Len(markdown_data)
    /\ LET entry == markdown_data[md_line]
           book_authors == ParsedAuthors(entry.author_year)
           book_year == ParsedYear(entry.author_year)
       IN  IF ~entry.url_valid
           THEN UNCHANGED <<md_year, md_books>>
           ELSE /\ md_year' = book_year
                /\ md_books' = Append(md_books,
                        [title |-> entry.title,
                         hash |-> examples_hash_book(entry.title, book_authors, book_year),
                         authors |-> book_authors,
                         publication_year |-> book_year])
    /\ md_line' = md_line + 1
    /\ UNCHANGED <<md_pc, markdown_data, storeVars, saveVars, mainVars,
                   scrapeVars, hashVars, detailVars, searchVars, backoffVars,
                   waveVars, branchVars,
                   connVars,
                   preflightVars>>

\* return books
ParseReturn ==
    /\ md_pc = "lines"
    /\ md_line > Len(markdown_data)
    /\ md_pc' = "returned"
    /\ UNCHANGED <<markdown_data, md_line, md_year, md_books, storeVars,
                   saveVars, mainVars, scrapeVars, hashVars, detailVars,
                   searchVars, backoffVars, waveVars, branchVars,
                   connVars,
                   preflightVars>>

InitParse ==
    /\ store = <<>>
    /\ hash_unique_index = TRUE
    /\ preexisting = {}
    /\ SaveIdle
    /\ MainIdle
    /\ ScrapeIdle
    /\ HashIdle
    /\ DetailIdle
    /\ SearchIdle
    /\ BackoffIdle
    /\ WaveIdle
    /\ BranchIdle
    /\ ConnIdle
    /\ PreflightIdle
    /\ md_pc = "lines"
    /\ markdown_data \in UNION {[1..n -> MdEntries] : n \in 0..MaxEntries}
    /\ md_line = 1
    /\ md_year = NoneInt
    /\ md_books = <<>>

NextParse == ParseEntry \/ ParseReturn

SpecParse == InitParse /\ [][NextParse]_vars

\* C29: the hash of every book the parser returns is the fingerprint
\* hash_book of bookscraper gives for the book's title, authors and
\* publication year
C29_ParserHashIsFingerprint ==
    md_pc = "returned" =>
        \A i \in 1..Len(md_books) :
            md_books[i].hash = hash_book(md_books[i].title, md_books[i].authors,
                                         md_books[i].publication_year)

-----------------------------------------------------------------------------
(* Existence checks that cannot be made                                    *)

-----------------------------------------------------------------------------
(* The queries of one site                                                 *)

\* the positions of the list whose book has the key
PositionsOfKey(book_list, k) ==
    {i \in 1..Len(book_list) : KeyValue(SiteName, book_list[i]) = k}

\* every native id the queries of the site found is once in the list of the
\* existence checks and at most once in the list of the detail fetches
OncePerNativeId ==
    \A n \in 1..Len(site_initial_search_results) :
        LET k == KeyValue(SiteName, site_initial_search_results[n])
        IN  k /= NoneVal =>
                /\ Cardinality(PositionsOfKey(search_results, k)) = 1
                /\ pc = "scrape" =>
                    Cardinality(PositionsOfKey(deduplicated_search_results, k)) <= 1

\* C32: a query after the first adds its results to those of the queries
\* before it, the deduplication starts after the last query, and then every
\* native id is checked against the store once and fetched at most once
C32_QueriesMergedThenDeduplicated ==
    [][/\ (pc = "search" /\ query_idx > 1 /\ query_idx' = query_idx + 1) =>
            /\ Len(site_initial_search_results') >= Len(site_initial_search_results)
            /\ SubSeq(site_initial_search_results', 1, Len(site_initial_search_results))
                    = site_initial_search_results
       /\ pc' \in {"dbcheck", "scrape"} =>
            /\ query_idx' > Len(SEARCH_QUERIES)
            /\ OncePerNativeId']_vars

\* a native id found twice, its book checked, new, and fetched
C32_Witness ==
    /\ pc = "scrape"
    /\ fetch_done /= {}
    /\ \E m, n \in 1..Len(site_initial_search_results) :
        /\ m < n
        /\ KeyValue(SiteName, site_initial_search_results[m]) /= NoneVal
        /\ KeyValue(SiteName, site_initial_search_results[m])
                = KeyValue(SiteName, site_initial_search_results[n])
        /\ \E d \in fetch_done :
            KeyValue(SiteName, deduplicated_search_results[d])
                = KeyValue(SiteName, site_initial_search_results[m])

-----------------------------------------------------------------------------
(* The end of the Leanpub pagination                                       *)

\* C33: every Leanpub page before the last one answered was full and free of
\* errors; the loop ends at the first page that is empty, short or failed,
\* requests no page after it, and returns the books of all pages before it
\* (and those of a short page)
C33_LeanpubStopsAndKeeps ==
    srch_site = "leanpub" =>
        /\ \A n \in 1..(Len(page_results) - 1) :
                Len(page_results[n]) = PageSize /\ n \notin page_errors
        /\ srch_pc = "request" /\ page_results /= <<>> =>
                /\ Len(page_results[Len(page_results)]) = PageSize
                /\ page_errors = {}
        /\ srch_pc \in {"return", "done"} =>
                /\ Len(page_requests) = Len(page_results)
                /\ Len(page_results[Len(page_results)]) < PageSize
                /\ books_from_search_results =
                        IF Len(page_results) \in page_errors
                        THEN Concat(SubSeq(page_results, 1, Len(page_results) - 1))
                        ELSE Concat(page_results)

\* a search whose second page failed has returned the books of the first
C33_Witness ==
    /\ srch_site = "leanpub"
    /\ srch_pc = "done"
    /\ page_errors = {2}
    /\ page_requests = <<1, 2>>
    /\ Len(page_results[1]) = PageSize
    /\ books_from_search_results = page_results[1]

-----------------------------------------------------------------------------
(* The URLs the batches of a script cover                                  *)

\* the batches handed to gather so far
Waves == SelectSeq(schedule, LAMBDA e : e.kind = "wave")

\* C34: when a script has ended, every URL of its list was in exactly one
\* batch, the batches took the URLs in list order, and no batch had more
\* than batch_size URLs
C34_EveryUrlInOneBatch ==
    wave_pc \in {"done", "raised"} =>
        /\ \A u \in 0..(total_urls - 1) :
                Cardinality({k \in 1..Len(Waves) :
                    Waves[k].first <= u /\ u < Waves[k].first + Waves[k].size}) = 1
        /\ \A k \in 1..Len(Waves) :
                /\ Waves[k].size <= batch_size
                /\ k > 1 => Waves[k].first = Waves[k - 1].first + Waves[k - 1].size

-----------------------------------------------------------------------------
(* The counters of save_books_to_mongodb                                   *)

-----------------------------------------------------------------------------
(* get_mongo_collection called by the existence checks of one gather, each *)
(* in its own worker thread, after the pre-flight call of main             *)

\* most existence checks of a gather in the model
MaxChecks == 3

Collection == "collection"

\* a write of the global: it counts as a reset when it takes away a handle
ResetsBy(value) == IF _mongo_collection /= NoneVal /\ value = NoneVal THEN 1 ELSE 0

\* get_mongo_collection: if _mongo_collection is None
TestHandle(t) ==
    /\ t \in DOMAIN conn_pc
    /\ conn_pc[t] = "test"
    /\ conn_pc' = [conn_pc EXCEPT
            ![t] = IF _mongo_collection = NoneVal THEN "initialize" ELSE "return"]
    /\ UNCHANGED <<_mongo_collection, init_returned, books_collection,
                   initialisations, handle_resets, storeVars, saveVars, mainVars,
                   scrapeVars, hashVars, detailVars, searchVars, backoffVars,
                   waveVars, branchVars, parseVars,
                   preflightVars>>

\* _initialize_mongodb_connection begins: the globals are set to None
InitializeBegins(t) ==
    /\ t \in DOMAIN conn_pc
    /\ conn_pc[t] = "initialize"
    /\ initialisations' = initialisations + 1
    /\ handle_resets' = handle_resets + ResetsBy(NoneVal)
    /\ _mongo_collection' = NoneVal
    /\ conn_pc' = [conn_pc EXCEPT ![t] = "connect"]
    /\ UNCHANGED <<init_returned, books_collection, storeVars, saveVars,
                   mainVars, scrapeVars, hashVars, detailVars, searchVars,
                   backoffVars, waveVars, branchVars, parseVars,
                   preflightVars>>

\* the rest of _initialize_mongodb_connection: without a URI or a certificate
\* file, and when the client or the ping raises, the function returns
\* (None, None) and the handlers set the globals to None; else the global is
\* the collection and the function returns it
InitializeEnds(t) ==
    /\ t \in DOMAIN conn_pc
    /\ conn_pc[t] = "connect"
    /\ \E value \in {NoneVal, Collection} :
        /\ handle_resets' = handle_resets + ResetsBy(value)
        /\ _mongo_collection' = value
        /\ init_returned' = [init_returned EXCEPT ![t] = value]
    /\ conn_pc' = [conn_pc EXCEPT ![t] = "assign"]
    /\ UNCHANGED <<books_collection, initialisations, storeVars, saveVars,
                   mainVars, scrapeVars, hashVars, detailVars, searchVars,
                   backoffVars, waveVars, branchVars, parseVars,
                   preflightVars>>

\* _mongo_client, _mongo_collection = _initialize_mongodb_connection()
AssignHandle(t) ==
    /\ t \in DOMAIN conn_pc
    /\ conn_pc[t] = "assign"
    /\ handle_resets' = handle_resets + ResetsBy(init_returned[t])
    /\ _mongo_collection' = init_returned[t]
    /\ conn_pc' = [conn_pc EXCEPT ![t] = "return"]
    /\ UNCHANGED <<init_returned, books_collection, initialisations, storeVars,
                   saveVars, mainVars, scrapeVars, hashVars, detailVars,
                   searchVars, backoffVars, waveVars, branchVars, parseVars,
                   preflightVars>>

\* return _mongo_collection, and the check goes on with what it got
ReturnHandle(t) ==
    /\ t \in DOMAIN conn_pc
    /\ conn_pc[t] = "return"
    /\ books_collection' = [books_collection EXCEPT ![t] = _mongo_collection]
    /\ conn_pc' = [conn_pc EXCEPT ![t] = "check"]
    /\ UNCHANGED <<_mongo_collection, init_returned, initialisations,
                   handle_resets, storeVars, saveVars, mainVars, scrapeVars,
                   hashVars, detailVars, searchVars, backoffVars, waveVars,
                   branchVars, parseVars,
                   preflightVars>>

\* the state after the pre-flight call of main, which has initialised the
\* connection once, with or without success, and the threads of the gather
InitConnect ==
    /\ store = <<>>
    /\ hash_unique_index = TRUE
    /\ preexisting = {}
    /\ SaveIdle
    /\ MainIdle
    /\ ScrapeIdle
    /\ HashIdle
    /\ DetailIdle
    /\ SearchIdle
    /\ BackoffIdle
    /\ WaveIdle
    /\ BranchIdle
    /\ ParseIdle
    /\ PreflightIdle
    /\ _mongo_collection \in {NoneVal, Collection}
    /\ \E n \in 1..MaxChecks :
        /\ conn_pc = [t \in 1..n |-> "test"]
        /\ init_returned = [t \in 1..n |-> NoneVal]
        /\ books_collection = [t \in 1..n |-> NoneVal]
    /\ initialisations = 1
    /\ handle_resets = 0

NextConnect ==
    \E t \in 1..MaxChecks :
        \/ TestHandle(t)
        \/ InitializeBegins(t)
        \/ InitializeEnds(t)
        \/ AssignHandle(t)
        \/ ReturnHandle(t)

SpecConnect == InitConnect /\ [][NextConnect]_vars

\* C36: the connection is initialised at most once in a run, and no write
\* of the global takes away a handle that was set
C36_InitialisedOnce ==
    conn_pc /= <<>> => initialisations <= 1 /\ handle_resets = 0

-----------------------------------------------------------------------------
\* C37: when a search has returned, every page it opened has been closed
C37_PagesClosedOnReturn ==
    srch_pc = "done" => open_pages = 0

-----------------------------------------------------------------------------
(* The pre-flight checks of search_and_scrape.main and the choice of the   *)
(* output destinations                                                     *)

\* the answers the prompt is given before the model stops asking
MaxPrompts == 3

\* what input() can return after lower().strip(): the four letters the
\* prompt knows and one other text
Choices == {"c", "m", "b", "e", "x"}

\* a destination that stays requested although its check failed
DropUnavailableKeeps(requested, available) == requested

\* 'if output_to_csv and not can_output_to_csv: output_to_csv = False', and
\* the same for MongoDB
DropUnavailable(requested, available) == requested /\ available

\* check_csv_write_permission() and get_mongo_collection(): exit when both
\* failed, else take the flags of the command line
PreflightChecks ==
    /\ pre_pc = "checks"
    /\ \E csv_ok \in BOOLEAN, mongo_ok \in BOOLEAN :
        /\ can_output_to_csv' = csv_ok
        /\ can_output_to_mongo' = mongo_ok
        /\ IF ~csv_ok /\ ~mongo_ok
           THEN /\ pre_pc' = "exited"
                /\ exit_status' = 1
                /\ UNCHANGED <<output_to_csv, output_to_mongo>>
           ELSE /\ output_to_csv' = args_output_to_csv
                /\ output_to_mongo' = args_output_to_mongo
                /\ pre_pc' = IF ~args_output_to_csv /\ ~args_output_to_mongo
                             THEN "prompt" ELSE "resolve"
                /\ UNCHANGED exit_status
    /\ UNCHANGED <<args_output_to_csv, args_output_to_mongo, choices, pc,
                   site_idx, query_idx, siteVars, aggregateVars, run_error,
                   csv_books, csv_failed_urls, mongo_books, storeVars,
                   saveVars, scrapeVars, hashVars, detailVars, searchVars,
                   backoffVars, waveVars, branchVars, parseVars, connVars>>

\* one round of the while loop that asks for the destination
Prompt ==
    /\ pre_pc = "prompt"
    /\ Len(choices) < MaxPrompts
    /\ IF ~can_output_to_csv /\ ~can_output_to_mongo
       THEN /\ pre_pc' = "exited"
            /\ exit_status' = 1
            /\ UNCHANGED <<choices, output_to_csv, output_to_mongo>>
       ELSE \E choice \in Choices :
            /\ choices' = Append(choices, choice)
            /\ IF choice = "c" /\ can_output_to_csv
               THEN /\ output_to_csv' = TRUE
                    /\ output_to_mongo' = FALSE
                    /\ pre_pc' = "resolve"
                    /\ UNCHANGED exit_status
               ELSE IF choice = "m" /\ can_output_to_mongo
               THEN /\ output_to_mongo' = TRUE
                    /\ output_to_csv' = FALSE
                    /\ pre_pc' = "resolve"
                    /\ UNCHANGED exit_status
               ELSE IF choice = "b" /\ can_output_to_csv /\ can_output_to_mongo
               THEN /\ output_to_csv' = TRUE
                    /\ output_to_mongo' = TRUE
                    /\ pre_pc' = "resolve"
                    /\ UNCHANGED exit_status
               ELSE IF choice = "e"
               THEN /\ pre_pc' = "exited"
                    /\ exit_status' = 0
                    /\ UNCHANGED <<output_to_csv, output_to_mongo>>
               ELSE UNCHANGED <<pre_pc, exit_status, output_to_csv,
                                output_to_mongo>>
    /\ UNCHANGED <<args_output_to_csv, args_output_to_mongo,
                   can_output_to_csv, can_output_to_mongo, pc, site_idx,
                   query_idx, siteVars, aggregateVars, run_error, csv_books,
                   csv_failed_urls, mongo_books, storeVars, saveVars,
                   scrapeVars, hashVars, detailVars, searchVars, backoffVars,
                   waveVars, branchVars, parseVars, connVars>>

\* the requested destinations whose check failed are dropped; the program
\* exits when none is left, else the search starts
ResolveOutputs ==
    /\ pre_pc = "resolve"
    /\ output_to_csv' = DropUnavailable(output_to_csv, can_output_to_csv)
    /\ output_to_mongo' = DropUnavailable(output_to_mongo, can_output_to_mongo)
    /\ IF ~output_to_csv' /\ ~output_to_mongo'
       THEN /\ pre_pc' = "exited"
            /\ exit_status' = 1
       ELSE /\ pre_pc' = "search"
            /\ UNCHANGED exit_status
    /\ UNCHANGED <<args_output_to_csv, args_output_to_mongo,
                   can_output_to_csv, can_output_to_mongo, choices, pc,
                   site_idx, query_idx, siteVars, aggregateVars, run_error,
                   csv_books, csv_failed_urls, mongo_books, storeVars,
                   saveVars, scrapeVars, hashVars, detailVars, searchVars,
                   backoffVars, waveVars, branchVars, parseVars, connVars>>

InitPreflight ==
    /\ store = <<>>
    /\ hash_unique_index = TRUE
    /\ preexisting = {}
    /\ SaveIdle
    /\ MainIdle
    /\ ScrapeIdle
    /\ HashIdle
    /\ DetailIdle
    /\ SearchIdle
    /\ BackoffIdle
    /\ WaveIdle
    /\ BranchIdle
    /\ ParseIdle
    /\ ConnIdle
    /\ pre_pc = "checks"
    /\ args_output_to_csv \in BOOLEAN
    /\ args_output_to_mongo \in BOOLEAN
    /\ can_output_to_csv = FALSE
    /\ can_output_to_mongo = FALSE
    /\ choices = <<>>
    /\ exit_status = NoneInt

NextPreflight ==
    \/ PreflightChecks
    \/ Prompt
    \/ ResolveOutputs

SpecPreflight == InitPreflight /\ [][NextPreflight]_vars

\* C38: when the search stage starts, at least one output destination is
\* enabled, every enabled destination passed its pre-flight check, and the
\* program has not exited; after an exit the search never starts
C38_SearchOnlyWithCheckedOutput ==
    /\ pre_pc = "search" =>
        /\ output_to_csv \/ output_to_mongo
        /\ output_to_csv => can_output_to_csv
        /\ output_to_mongo => can_output_to_mongo
        /\ exit_status = NoneInt
    /\ exit_status /= NoneInt => pre_pc = "exited"

\* -c was given, the directory is not writable, MongoDB was asked for too
\* and is reachable: the search starts with MongoDB alone
C38_Witness ==
    /\ pre_pc = "search"
    /\ args_output_to_csv
    /\ ~can_output_to_csv
    /\ ~output_to_csv
    /\ output_to_mongo

====
